---- MODULE Spec2Model ----
(***************************************************************************)
(* Model of the projection engine (staging, merge, atomic publish,         *)
(* projection manifest) and of the watermark state managers of the         *)
(* ingestor-reader repository.                                             *)
(***************************************************************************)
EXTENDS Integers, Sequences, FiniteSets, TLC

(***************************************************************************)
(* Bounds                                                                  *)
(***************************************************************************)
MaxCalls == 3

(***************************************************************************)
(* Object store layout: one key is <<partition, file name>> under the      *)
(* dataset's staging/ or projections/ prefix.                              *)
(***************************************************************************)
Partitions == {"P1", "P2"}

DataFile == "data.parquet"

\* another object of a partition directory, not the file the merger reads
OtherFile == "part-00001.json"

FileNames == {DataFile, OtherFile}

Keys == Partitions \X FileNames

\* list_objects_v2 returns keys in lexicographic order
KeySeq == << <<"P1", DataFile>>, <<"P1", OtherFile>>,
            <<"P2", DataFile>>, <<"P2", OtherFile>> >>

\* an object is its table; NoFile is the outcome of a 404 on head_object
NoFile == [exists |-> FALSE, rows |-> <<>>]

File(rows) == [exists |-> TRUE, rows |-> rows]

EmptyStore == [k \in Keys |-> NoFile]

Row(t, s, x) == [obs_time |-> t, internal_series_code |-> s, value |-> x]

IdentityKey(r) == <<r.obs_time, r.internal_series_code>>

(***************************************************************************)
(* Version snapshots (immutable, written by the external loader).          *)
(* "v0" has no version manifest, "v3" has an empty file list, "v4" holds   *)
(* one identity key twice.  A version's files carry the name the merger    *)
(* builds for a partition's staging and published file (data.parquet).     *)
(***************************************************************************)
Versions == {"v0", "v1", "v2", "v3", "v4"}

NoManifest == [found |-> FALSE, files |-> <<>>]

VersionData ==
  [v \in Versions |->
     CASE v = "v1" -> [k \in Keys |->
                         IF k = <<"P1", DataFile>> THEN File(<< Row(1, "S1", 10) >>)
                         ELSE IF k = <<"P2", DataFile>> THEN File(<< Row(1, "S2", 20) >>)
                         ELSE NoFile]
       [] v = "v2" -> [k \in Keys |->
                         IF k = <<"P1", DataFile>>
                         THEN File(<< Row(1, "S1", 11), Row(2, "S1", 12) >>)
                         ELSE IF k = <<"P2", DataFile>> THEN File(<< Row(2, "S2", 22) >>)
                         ELSE NoFile]
       [] v = "v4" -> [k \in Keys |->
                         IF k = <<"P1", DataFile>>
                         THEN File(<< Row(2, "S1", 14), Row(2, "S1", 15) >>)
                         ELSE NoFile]
       [] OTHER    -> EmptyStore]

\* ManifestManager.load_manifest: the ordered list of partition-relative paths
load_manifest(v) ==
  IF v = "v0" THEN NoManifest
  ELSE [found |-> TRUE,
        files |-> SelectSeq(KeySeq, LAMBDA k : VersionData[v][k].exists)]

Range(s) == {s[i] : i \in 1..Len(s)}

(***************************************************************************)
(* ProjectionMerger                                                        *)
(***************************************************************************)
\* pandas drop_duplicates(subset=[obs_time, internal_series_code], keep="first")
RECURSIVE drop_duplicates(_)
drop_duplicates(rows) ==
  IF rows = <<>> THEN <<>>
  ELSE LET init == drop_duplicates(SubSeq(rows, 1, Len(rows) - 1))
           last == rows[Len(rows)]
       IN IF \E i \in 1..Len(init) : IdentityKey(init[i]) = IdentityKey(last)
          THEN init
          ELSE Append(init, last)

\* variant: the tables concatenated with the staging rows first
merge_data_staging_first(projections_table, staging_table) ==
  IF ~projections_table.exists /\ ~staging_table.exists THEN NoFile
  ELSE IF ~projections_table.exists THEN staging_table
  ELSE IF ~staging_table.exists THEN projections_table
  ELSE File(drop_duplicates(staging_table.rows \o projections_table.rows))

\* variant: without a staging table there is no result
merge_data_needs_staging(projections_table, staging_table) ==
  IF ~staging_table.exists THEN NoFile
  ELSE IF ~projections_table.exists THEN staging_table
  ELSE File(drop_duplicates(projections_table.rows \o staging_table.rows))

merge_data(projections_table, staging_table) ==
  IF ~projections_table.exists /\ ~staging_table.exists THEN NoFile
  ELSE IF ~projections_table.exists THEN staging_table
  ELSE IF ~staging_table.exists THEN projections_table
  ELSE File(drop_duplicates(projections_table.rows \o staging_table.rows))

\* merge_partition uploads when the merged table is not None and has rows
merge_writes(stg, pub, p) ==
  LET merged == merge_data(pub[<<p, DataFile>>], stg[<<p, DataFile>>])
  IN merged.exists /\ Len(merged.rows) > 0

\* the staging store after merge_partition(partition)
merge_partition(stg, pub, p) ==
  LET merged == merge_data(pub[<<p, DataFile>>], stg[<<p, DataFile>>])
  IN IF merged.exists /\ Len(merged.rows) > 0
     THEN [stg EXCEPT ![<<p, DataFile>>] = merged]
     ELSE stg

\* StagingManager.list_staging_partitions: partition directories of the staged objects
list_staging_partitions(stg) == {k[1] : k \in {kk \in Keys : stg[kk].exists}}

\* merge_all_partitions: every listed partition is submitted to the pool and
\* runs to its end; failed is the set of partitions whose task raised
\* before its upload.
merge_all_partitions(stg, pub, failed) ==
  LET parts == list_staging_partitions(stg)
  IN [staging |-> [k \in Keys |->
                     IF k[1] \in parts \ failed
                     THEN merge_partition(stg, pub, k[1])[k]
                     ELSE stg[k]],
      raised  |-> parts \cap failed # {}]

(***************************************************************************)
(* StagingManager                                                          *)
(***************************************************************************)
\* copy_from_version: every listed file is submitted to the pool; ok is the
\* set of files whose copy succeeded, the call raises when one did not.
copy_from_version(stg, v, files, ok) ==
  [staging |-> [k \in Keys |->
                  IF k \in Range(files) \cap ok THEN VersionData[v][k] ELSE stg[k]],
   raised  |-> Range(files) \ ok # {}]

\* clear_staging: deletes every object under the staging prefix; kept is the
\* set of keys whose delete failed, the call raises when one did.
clear_staging(stg, kept) ==
  [staging |-> [k \in Keys |-> IF k \in kept THEN stg[k] ELSE NoFile],
   raised  |-> \E k \in kept : stg[k].exists]

(***************************************************************************)
(* AtomicProjectionMover                                                   *)
(***************************************************************************)
list_s3_files(store) == SelectSeq(KeySeq, LAMBDA k : store[k].exists)

\* variant: only the data files under the staging prefix are listed
get_staging_data_files(stg) ==
  SelectSeq(KeySeq, LAMBDA k : stg[k].exists /\ k[2] = DataFile)

get_staging_files(stg) == list_s3_files(stg)

\* staging_key[len(staging_prefix):] under the projections prefix: the same
\* relative key in the published area
convert_to_projections_key(staging_key) == staging_key

\* delete_single_file swallows every error: a key in failing is left as it is
delete_files(store, keys, failing) ==
  [k \in Keys |-> IF k \in keys \ failing THEN NoFile ELSE store[k]]

\* variant: a failed copy re-raises without the rollback
copy_all_no_rollback(stg, pub, staging_files, failAt, rbFail) ==
  LET n      == IF failAt = 0 THEN Len(staging_files) ELSE failAt - 1
      copied == {convert_to_projections_key(staging_files[i]) : i \in 1..n}
      after  == [k \in Keys |-> IF k \in copied THEN stg[k] ELSE pub[k]]
  IN [published |-> after, copied_files |-> copied, raised |-> failAt # 0]

\* failAt = 0: every copy succeeds; failAt = i: the i-th copy_object raises.
\* rbFail: the destinations whose rollback delete fails.
copy_all_to_projections(stg, pub, staging_files, failAt, rbFail) ==
  LET n      == IF failAt = 0 THEN Len(staging_files) ELSE failAt - 1
      copied == {convert_to_projections_key(staging_files[i]) : i \in 1..n}
      after  == [k \in Keys |-> IF k \in copied THEN stg[k] ELSE pub[k]]
  IN IF failAt = 0
     THEN [published |-> after, copied_files |-> copied, raised |-> FALSE]
     ELSE [published |-> delete_files(after, copied, rbFail),
           copied_files |-> copied, raised |-> TRUE]

delete_staging_after_successful_copy(stg, staging_files, delFail) ==
  delete_files(stg, Range(staging_files), delFail)

\* variant: the staging originals are deleted whether or not the copies succeeded
move_deleting_staging_always(stg, pub, failAt, rbFail, delFail) ==
  LET staging_files == get_staging_files(stg)
      c == copy_all_to_projections(stg, pub, staging_files, failAt, rbFail)
  IN IF staging_files = <<>>
     THEN [staging |-> stg, published |-> pub, raised |-> FALSE,
           listed |-> {}, copied_files |-> {}]
     ELSE [staging |-> delete_staging_after_successful_copy(stg, staging_files, delFail),
           published |-> c.published, raised |-> c.raised,
           listed |-> Range(staging_files), copied_files |-> c.copied_files]

\* variant: a failed delete of a staging original is raised
move_raising_on_delete_failure(stg, pub, failAt, rbFail, delFail) ==
  LET staging_files == get_staging_files(stg)
      c == copy_all_to_projections(stg, pub, staging_files, failAt, rbFail)
  IN IF staging_files = <<>>
     THEN [staging |-> stg, published |-> pub, raised |-> FALSE,
           listed |-> {}, copied_files |-> {}]
     ELSE IF c.raised
     THEN [staging |-> stg, published |-> c.published, raised |-> TRUE,
           listed |-> Range(staging_files), copied_files |-> c.copied_files]
     ELSE [staging |-> delete_staging_after_successful_copy(stg, staging_files, delFail),
           published |-> c.published, raised |-> delFail # {},
           listed |-> Range(staging_files), copied_files |-> c.copied_files]

move_staging_to_projections(stg, pub, failAt, rbFail, delFail) ==
  LET staging_files == get_staging_files(stg)
      c == copy_all_to_projections(stg, pub, staging_files, failAt, rbFail)
  IN IF staging_files = <<>>
     THEN [staging |-> stg, published |-> pub, raised |-> FALSE,
           listed |-> {}, copied_files |-> {}]
     ELSE IF c.raised
     THEN [staging |-> stg, published |-> c.published, raised |-> TRUE,
           listed |-> Range(staging_files), copied_files |-> c.copied_files]
     ELSE [staging |-> delete_staging_after_successful_copy(stg, staging_files, delFail),
           published |-> c.published, raised |-> FALSE,
           listed |-> Range(staging_files), copied_files |-> c.copied_files]

(***************************************************************************)
(* ProjectionManifestManager                                               *)
(***************************************************************************)
NoProjectionManifest ==
  [exists |-> FALSE, projected_versions |-> <<>>,
   last_projected_version |-> "", last_projection_date |-> 0]

\* variant: the stored list is not consulted
is_version_projected_never(m, v) == FALSE

\* variant: any stored manifest answers yes
is_version_projected_if_exists(m, v) == m.exists

\* variant: only last_projected_version is consulted
is_version_projected_last(m, v) == m.exists /\ m.last_projected_version = v

is_version_projected(m, v) == m.exists /\ v \in Range(m.projected_versions)

\* variant: the manifest is written anew with the one version
add_projected_version_overwriting(m, v, now) ==
  [exists |-> TRUE, projected_versions |-> <<v>>,
   last_projected_version |-> v, last_projection_date |-> now]

\* variant: the version is appended without looking for it in the list
add_projected_version_always_append(m, v, now) ==
  [exists |-> TRUE, projected_versions |-> Append(m.projected_versions, v),
   last_projected_version |-> v, last_projection_date |-> now]

add_projected_version(m, v, now) ==
  [exists |-> TRUE,
   projected_versions |-> IF v \in Range(m.projected_versions)
                          THEN m.projected_versions
                          ELSE Append(m.projected_versions, v),
   last_projected_version |-> v,
   last_projection_date |-> now]

(***************************************************************************)
(* State managers (watermark store): FileStateManager and S3StateManager   *)
(***************************************************************************)
MaxBatch == 3

Backends == {"file", "s3"}

Series == {"S1", "S2"}

\* data_point.get("internal_series_code") of a row without a series code
NoSeries == ""

SeriesCodes == Series \cup {NoSeries}

\* days of 2025-01
Times == {1, 3, 5, 10}

\* the obs_time values that also come with a tzinfo
AwareTimes == {10}

Datetime(t, aware) == [isdt |-> TRUE, wall |-> t, aware |-> aware]

\* an obs_time that is not a datetime instance
NotADatetime == [isdt |-> FALSE, wall |-> 0, aware |-> FALSE]

DataPoint(s, o) == [internal_series_code |-> s, obs_time |-> o]

DataPoints ==
  {DataPoint(s, Datetime(t, FALSE)) : s \in Series, t \in Times}
    \cup {DataPoint(s, Datetime(t, TRUE)) : s \in Series, t \in AwareTimes}
    \cup {DataPoint(NoSeries, Datetime(t, FALSE)) : t \in AwareTimes}
    \cup {DataPoint("S1", NotADatetime)}

Batches == UNION {[1..n -> DataPoints] : n \in 0..MaxBatch}

\* date_utils.to_naive: drops the tzinfo, keeps the wall time
to_naive(date) == [date EXCEPT !.aware = FALSE]

\* datetime.isoformat / datetime.fromisoformat on the stored strings
isoformat(date) == [has |-> TRUE, text |-> <<date.wall, date.aware>>]

fromisoformat(entry) == Datetime(entry.text[1], entry.text[2])

NoEntry == [has |-> FALSE, text |-> <<0, FALSE>>]

EmptyState == [s \in SeriesCodes |-> NoEntry]

\* the stored object: absent, not JSON, or a JSON object series_code -> string
Missing == [kind |-> "missing", state |-> EmptyState]

InvalidJson == [kind |-> "invalid", state |-> EmptyState]

\* content that is empty once stripped
Empty == [kind |-> "empty", state |-> EmptyState]

EmptyKinds == {"missing", "invalid", "empty"}

\* a stored string that is not an ISO timestamp
Malformed == [has |-> TRUE, text |-> <<>>]

\* datetime.fromisoformat raises ValueError on such a string
fromisoformat_raises(entry) == Len(entry.text) # 2

Json(state) == [kind |-> "json", state |-> state]

StoredContents ==
  {Missing, InvalidJson}
    \cup {Json([s \in SeriesCodes |-> IF s = NoSeries THEN NoEntry ELSE f[s]]) :
            f \in [Series -> {NoEntry} \cup {isoformat(Datetime(t, FALSE)) : t \in Times}]}

\* _load: a missing object and content that is not JSON are the empty state
load(b, content) == IF content.kind = "json" THEN content.state ELSE EmptyState

\* _save: the whole state is written back
save(b, state) == Json(state)

NoDate == [found |-> FALSE, wall |-> 0]

\* the value get_last_date returns; None also where the s3 backend caught
\* the ValueError of fromisoformat
get_last_date(b, content, series_code) ==
  LET date_str == load(b, content)[series_code]
  IN IF ~date_str.has THEN NoDate
     ELSE IF fromisoformat_raises(date_str) THEN NoDate
     ELSE [found |-> TRUE, wall |-> to_naive(fromisoformat(date_str)).wall]

\* variant: without the "if not date_str" guard fromisoformat gets None
get_last_date_raises_unguarded(b, content, series_code) ==
  LET date_str == load(b, content)[series_code]
  IN b = "file" /\ (~date_str.has \/ fromisoformat_raises(date_str))

\* whether get_last_date raises: the file backend lets the ValueError of
\* fromisoformat through, the s3 backend catches it
get_last_date_raises(b, content, series_code) ==
  LET date_str == load(b, content)[series_code]
  IN b = "file" /\ date_str.has /\ fromisoformat_raises(date_str)

\* config["parse_config"]["series_map"] as the set of its series codes
Configs == SUBSET SeriesCodes

\* get_series_last_dates: the series of the config that have a watermark
get_series_last_dates(b, content, config) ==
  [s \in SeriesCodes |->
     IF s \in config /\ s # NoSeries THEN get_last_date(b, content, s) ELSE NoDate]

\* it raises when the get_last_date of one of its series raises
get_series_last_dates_raises(b, content, config) ==
  \E s \in config \ {NoSeries} : get_last_date_raises(b, content, s)

\* variant: the last valid row of a series wins, whatever its obs_time
RECURSIVE series_last_dates(_)
series_last_dates(data) ==
  IF data = <<>> THEN [s \in SeriesCodes |-> NoDate]
  ELSE LET acc == series_last_dates(SubSeq(data, 1, Len(data) - 1))
           data_point == data[Len(data)]
           series_code == data_point.internal_series_code
           obs_time == data_point.obs_time
       IN IF series_code # NoSeries /\ obs_time.isdt
          THEN [acc EXCEPT ![series_code] =
                  [found |-> TRUE, wall |-> to_naive(obs_time).wall]]
          ELSE acc

\* the loop of save_dates_from_data over the batch, in row order
RECURSIVE series_max_dates(_)
series_max_dates(data) ==
  IF data = <<>> THEN [s \in SeriesCodes |-> NoDate]
  ELSE LET acc == series_max_dates(SubSeq(data, 1, Len(data) - 1))
           data_point == data[Len(data)]
           series_code == data_point.internal_series_code
           obs_time == data_point.obs_time
       IN IF series_code # NoSeries /\ obs_time.isdt
             /\ (~acc[series_code].found
                   \/ to_naive(obs_time).wall > acc[series_code].wall)
          THEN [acc EXCEPT ![series_code] =
                  [found |-> TRUE, wall |-> to_naive(obs_time).wall]]
          ELSE acc

save_dates_from_data(b, content, data) ==
  LET maxes == series_max_dates(data)
  IN IF data = <<>> \/ \A s \in SeriesCodes : ~maxes[s].found
     THEN content
     ELSE save(b, [s \in SeriesCodes |->
                     IF maxes[s].found
                     THEN isoformat(Datetime(maxes[s].wall, FALSE))
                     ELSE load(b, content)[s]])

VARIABLES
  backend,   \* which state manager the run was built with
  stored,    \* the content of the state file / state object
  before,    \* history: the content before the save
  batch,     \* the normalized data handed to save_dates_from_data
  spc        \* "off", "ready" before the save, "saved" after it

stateVars == <<backend, stored, before, batch, spc>>

StateOff ==
  /\ backend = "file"
  /\ stored = Missing
  /\ before = Missing
  /\ batch = <<>>
  /\ spc = "off"

VARIABLES
  stores,    \* per backend: the content of its state file / state object
  answers,   \* per backend: what the last call returned or whether it raised
  call,      \* the last call made on both backends
  cpc        \* "off", "on"

callVars == <<stores, answers, call, cpc>>

NoDates == [s \in SeriesCodes |-> NoDate]

NoAnswer == [raised |-> FALSE, date |-> NoDate, dates |-> NoDates]

NoStateCall == [op |-> "none", series_code |-> NoSeries, config |-> {},
                data |-> <<>>, before |-> [b \in Backends |-> Missing]]

CallsOff ==
  /\ stores = [b \in Backends |-> Missing]
  /\ answers = [b \in Backends |-> NoAnswer]
  /\ call = NoStateCall
  /\ cpc = "off"

(***************************************************************************)
(* DynamoDBLockManager: one lock record per key in a DynamoDB table        *)
(***************************************************************************)
\* the model follows the wall clock (int(time.time())) up to MaxTime seconds
MaxTime == 3

\* the lock key of the dataset, as ETLUseCase.execute builds it: "etl:" + dataset_id
LockKeys == {"etl:d1"}

\* the processes that call the lock manager
Callers == {"A", "B", "C"}

\* the timeout_seconds values the callers pass
Timeouts == {1, 2}

\* no item in the table under the key
NoLock == [exists |-> FALSE, expiration_time |-> 0, acquired_at |-> 0]

LockItem(expiration_time, current_time) ==
  [exists |-> TRUE, expiration_time |-> expiration_time, acquired_at |-> current_time]

EmptyTable == [k \in LockKeys |-> NoLock]

\* how DynamoDB answers put_item: it evaluates the condition (and writes the item
\* or raises ConditionalCheckFailedException), or the request fails otherwise
PutOutcomes == {"evaluated", "error"}

\* how DynamoDB answers delete_item
DeleteOutcomes == {"ok", "ResourceNotFoundException", "ClientError", "other"}

\* ConditionExpression: attribute_not_exists(lock_key) OR expiration_time < :current_time
condition_expression(item, current_time) ==
  ~item.exists \/ item.expiration_time < current_time

\* variant: the condition reads acquired_at instead of expiration_time
acquire_by_acquired_at(table, lock_key, timeout_seconds, current_time, outcome) ==
  IF outcome = "error"
  THEN [table |-> table, returned |-> FALSE, raised |-> TRUE, put_calls |-> 1]
  ELSE IF ~table[lock_key].exists \/ table[lock_key].acquired_at < current_time
  THEN [table |-> [table EXCEPT ![lock_key] =
                     LockItem(current_time + timeout_seconds, current_time)],
        returned |-> TRUE, raised |-> FALSE, put_calls |-> 1]
  ELSE [table |-> table, returned |-> FALSE, raised |-> FALSE, put_calls |-> 1]

\* variant: put_item without a ConditionExpression
acquire_unconditional(table, lock_key, timeout_seconds, current_time, outcome) ==
  IF outcome = "error"
  THEN [table |-> table, returned |-> FALSE, raised |-> TRUE, put_calls |-> 1]
  ELSE [table |-> [table EXCEPT ![lock_key] =
                     LockItem(current_time + timeout_seconds, current_time)],
        returned |-> TRUE, raised |-> FALSE, put_calls |-> 1]

\* one put_item; True when it wrote, False on ConditionalCheckFailedException,
\* any other exception propagates
acquire(table, lock_key, timeout_seconds, current_time, outcome) ==
  LET expiration_time == current_time + timeout_seconds
  IN IF outcome = "error"
     THEN [table |-> table, returned |-> FALSE, raised |-> TRUE, put_calls |-> 1]
     ELSE IF condition_expression(table[lock_key], current_time)
     THEN [table |-> [table EXCEPT ![lock_key] =
                        LockItem(expiration_time, current_time)],
           returned |-> TRUE, raised |-> FALSE, put_calls |-> 1]
     ELSE [table |-> table, returned |-> FALSE, raised |-> FALSE, put_calls |-> 1]

\* variant: a delete that fails when there is no item under the key
release_if_present(table, lock_key, outcome) ==
  IF outcome = "ok" /\ table[lock_key].exists
  THEN [table |-> [table EXCEPT ![lock_key] = NoLock], raised |-> FALSE]
  ELSE [table |-> table, raised |-> outcome \in {"ok", "other"}]

\* variant: delete_item is not sent
release_keeping_record(table, lock_key, outcome) ==
  [table |-> table, raised |-> outcome = "other"]

\* variant: only ResourceNotFoundException is swallowed
release_raising_client_error(table, lock_key, outcome) ==
  IF outcome = "ok"
  THEN [table |-> [table EXCEPT ![lock_key] = NoLock], raised |-> FALSE]
  ELSE [table |-> table, raised |-> outcome \in {"ClientError", "other"}]

\* one delete_item; ResourceNotFoundException and ClientError are swallowed,
\* any other exception propagates
release(table, lock_key, outcome) ==
  IF outcome = "ok"
  THEN [table |-> [table EXCEPT ![lock_key] = NoLock], raised |-> FALSE]
  ELSE [table |-> table, raised |-> outcome = "other"]

\* what a caller knows of a lock it acquired: acquire returned True at a time
\* when it computed this expiration_time
NoHold == [held |-> FALSE, expiration_time |-> 0]

\* history of a key: who wrote the item now in the table, and whether release
\* was called on the key since
NoGrant == [caller |-> "", released |-> FALSE]

\* history: a release by a caller whose own lock had expired deleted the item of
\* another caller whose lock had not
NoStolen == [victim |-> "", releaser |-> ""]

NoOp == [op |-> "none", caller |-> "", key |-> "", timeout |-> 0, now |-> 0,
         outcome |-> "", before |-> EmptyTable, grant |-> NoGrant,
         returned |-> FALSE, raised |-> FALSE, put_calls |-> 0]

VARIABLES
  lockTable,     \* the DynamoDB table: lock_key -> item
  epoch,         \* the wall clock in whole seconds
  holds,         \* per caller and key: the lock the caller took and has not released
  grant,         \* history: per key, the writer of the item and releases since
  lastOp,        \* history: the last lock manager call, its inputs and result
  staleRelease,  \* history: release was called by a caller without an unexpired lock
  stolen,        \* history: the last unexpired lock deleted by an expired holder
  lpc            \* "off" when the lock manager is not part of the run, else "on"

lockVars == <<lockTable, epoch, holds, grant, lastOp, staleRelease, stolen, lpc>>

LockIdle ==
  /\ lockTable = EmptyTable
  /\ epoch = 0
  /\ holds = [c \in Callers |-> [k \in LockKeys |-> NoHold]]
  /\ grant = [k \in LockKeys |-> NoGrant]
  /\ lastOp = NoOp
  /\ staleRelease = FALSE
  /\ stolen = NoStolen

LockOff == LockIdle /\ lpc = "off"

VARIABLES
  rpc,       \* per run: position in ETLUseCase.execute
  rlocal,    \* per run: the projection manifest as the run read it
  recorded   \* history: versions whose add_projected_version wrote the manifest

runVars == <<rpc, rlocal, recorded>>

RunsOff ==
  /\ rpc = [r \in Callers |-> "off"]
  /\ rlocal = [r \in Callers |-> NoProjectionManifest]
  /\ recorded = {}

\* the caller's lock on the key is unexpired as the table reads it
Unexpired(c, k) == holds[c][k].held /\ ~(holds[c][k].expiration_time < epoch)

\* a caller calls acquire(lock_key, timeout_seconds)
Acquire(c, k, T) ==
  /\ lpc = "on"
  /\ \E outcome \in PutOutcomes :
       LET r == acquire(lockTable, k, T, epoch, outcome)
       IN /\ lockTable' = r.table
          /\ holds' = IF r.returned
                      THEN [holds EXCEPT ![c][k] = [held |-> TRUE,
                                                    expiration_time |-> epoch + T]]
                      ELSE holds
          /\ grant' = IF r.returned
                      THEN [grant EXCEPT ![k] = [caller |-> c, released |-> FALSE]]
                      ELSE grant
          /\ lastOp' = [op |-> "acquire", caller |-> c, key |-> k, timeout |-> T,
                        now |-> epoch, outcome |-> outcome, before |-> lockTable,
                        grant |-> grant[k], returned |-> r.returned,
                        raised |-> r.raised, put_calls |-> r.put_calls]
  /\ UNCHANGED <<epoch, staleRelease, stolen, lpc>>

\* a caller calls release(lock_key)
Release(c, k) ==
  /\ lpc = "on"
  /\ \E outcome \in DeleteOutcomes :
       LET r == release(lockTable, k, outcome)
       IN /\ lockTable' = r.table
          /\ lastOp' = [op |-> "release", caller |-> c, key |-> k, timeout |-> 0,
                        now |-> epoch, outcome |-> outcome, before |-> lockTable,
                        grant |-> grant[k], returned |-> FALSE,
                        raised |-> r.raised, put_calls |-> 0]
          /\ stolen' = IF /\ lockTable[k].exists /\ ~r.table[k].exists
                          /\ holds[c][k].held /\ ~Unexpired(c, k)
                          /\ grant[k].caller \in Callers \ {c}
                          /\ Unexpired(grant[k].caller, k)
                       THEN [victim |-> grant[k].caller, releaser |-> c]
                       ELSE stolen
  /\ holds' = [holds EXCEPT ![c][k] = NoHold]
  /\ grant' = [grant EXCEPT ![k].released = TRUE]
  /\ staleRelease' = (staleRelease \/ ~Unexpired(c, k))
  /\ UNCHANGED <<epoch, lpc>>

\* a second passes
Tick ==
  /\ lpc = "on"
  /\ epoch < MaxTime
  /\ epoch' = epoch + 1
  /\ UNCHANGED <<lockTable, holds, grant, lastOp, staleRelease, stolen, lpc>>

(***************************************************************************)
(* State of one dataset and of the project_version call in progress        *)
(***************************************************************************)
VARIABLES
  staging,       \* objects under datasets/{d}/staging/
  published,     \* objects under datasets/{d}/projections/ (data files)
  manifest,      \* datasets/{d}/projections/manifest.json
  clock,         \* wall clock, one tick per project_version call
  pc,            \* position of the call in progress, "idle" between calls
  cur,           \* version_id of the call in progress
  result,        \* how the last call ended
  callBase,      \* history: the stores when the call in progress began
  mergeIn,       \* history: staging as the last merge_all_partitions read it
  lastMove,      \* history: report of the last move_staging_to_projections
  pubAtSuccess,  \* history: observations published at the end of a successful call
  publishCount,  \* history: completed merge-and-publish runs per version
  retryBase,     \* history: the stores when the first attempt of a retried call began
  trace,         \* history: the collaborator calls made by the last project_version call
  mcall          \* history: the last direct call of the projection manifest manager

projVars == <<staging, published, manifest, clock, pc, cur, result, callBase,
              mergeIn, lastMove, pubAtSuccess, publishCount, retryBase, trace, mcall>>

VARIABLES
  merge_workers,  \* width of the merger's worker pool
  futures,        \* per partition: the state of its merge_partition task
  mergeCalls,     \* history: merge_partition calls per partition
  tlocal,         \* per partition: the merged table the task holds before its upload
  fpc             \* "off", "ready", "joining", "returned", "raised"

fanVars == <<merge_workers, futures, mergeCalls, tlocal, fpc>>

\* no merge_all_partitions call with its tasks in view
FanIdle ==
  /\ futures = [p \in Partitions |-> "none"]
  /\ mergeCalls = [p \in Partitions |-> 0]
  /\ tlocal = [p \in Partitions |-> NoFile]

FanOff == FanIdle /\ merge_workers = 1 /\ fpc = "off"

VARIABLES
  epc,        \* position of the ETLUseCase.execute call in progress
  eacq,       \* what acquire did in this call: "none", "true", "false", "raised"
  eerr,       \* the step whose exception ends this call, "" when there is none
  esteps,     \* history: the pipeline steps called in this call, in order
  ereleases,  \* history: release calls made by this call
  workbook,   \* raw_data: the rows the extractor returned
  marks,      \* series_last_dates as read at the start of this call
  edata       \* data: the rows in flight, and what the call returns

etlVars == <<epc, eacq, eerr, esteps, ereleases, workbook, marks, edata>>

\* no execute call in progress, nothing of an earlier call kept
EtlFresh ==
  /\ eacq = "none"
  /\ eerr = ""
  /\ esteps = <<>>
  /\ ereleases = 0
  /\ workbook = <<>>
  /\ marks = [s \in SeriesCodes |-> NoDate]
  /\ edata = <<>>

EtlOff == EtlFresh /\ epc = "off"

vars == <<staging, published, manifest, clock, pc, cur, result, callBase,
          mergeIn, lastMove, pubAtSuccess, publishCount, retryBase, trace, mcall,
          backend, stored, before, batch, spc,
          lockTable, epoch, holds, grant, lastOp, staleRelease, stolen, lpc,
          rpc, rlocal, recorded,
          merge_workers, futures, mergeCalls, tlocal, fpc,
          stores, answers, call, cpc,
          epc, eacq, eerr, esteps, ereleases, workbook, marks, edata>>

NoVersion == "none"

NoResult == [version |-> NoVersion, outcome |-> "none", step |-> ""]

NoMove == [outcome |-> "none", listed |-> {}, copied_files |-> {}, failAt |-> 0,
           rbFail |-> {}, delFail |-> {},
           staging |-> EmptyStore, published |-> EmptyStore]

NoMerge == [merged |-> {}, written |-> {}, staging |-> EmptyStore]

Base(v, retry) == [version |-> v, staging |-> staging, published |-> published,
                   manifest |-> manifest, prev |-> result, retry |-> retry]

NoBase == [version |-> NoVersion, staging |-> EmptyStore, published |-> EmptyStore,
           manifest |-> NoProjectionManifest, prev |-> NoResult, retry |-> FALSE]

\* the observations (partition, row) held by a store
Observations(pub) == UNION {{<<k[1], r>> : r \in Range(pub[k].rows)} : k \in Keys}

Success == {"done", "skipped", "empty"}

NoCall == [op |-> "none", version |-> NoVersion, before |-> NoProjectionManifest,
           returned |-> FALSE, raised |-> FALSE]

ProjInit ==
  /\ staging = EmptyStore
  /\ published = EmptyStore
  /\ manifest = NoProjectionManifest
  /\ clock = 0
  /\ pc = "idle"
  /\ cur = NoVersion
  /\ result = NoResult
  /\ callBase = NoBase
  /\ mergeIn = NoMerge
  /\ lastMove = NoMove
  /\ pubAtSuccess = {}
  /\ publishCount = [v \in Versions |-> 0]
  /\ retryBase = NoBase
  /\ trace = {}
  /\ mcall = NoCall

\* the call returns or raises: back to idle
Finish(v, outcome, step, pub) ==
  /\ pc' = "idle"
  /\ cur' = NoVersion
  /\ result' = [version |-> v, outcome |-> outcome, step |-> step]
  /\ pubAtSuccess' = IF outcome \in Success
                     THEN pubAtSuccess \cup Observations(pub)
                     ELSE pubAtSuccess

Continue(next) ==
  /\ pc' = next
  /\ UNCHANGED <<cur, result, pubAtSuccess>>

(***************************************************************************)
(* ProjectionManager.project_version, one action per step                  *)
(***************************************************************************)
\* variant: staging is cleared before the version manifest is loaded
ProjectBeginClearingStaging(v) ==
  /\ pc = "idle"
  /\ clock < MaxCalls
  /\ clock' = clock + 1
  /\ callBase' = Base(v, FALSE)
  /\ retryBase' = IF result.version = v /\ result.outcome = "failed"
                     /\ result.step \in {"stage", "merge", "publish"}
                  THEN [retryBase EXCEPT !.retry = TRUE]
                  ELSE Base(v, FALSE)
  /\ mergeIn' = NoMerge
  /\ lastMove' = NoMove
  /\ staging' = EmptyStore
  /\ UNCHANGED <<published, manifest, publishCount, mcall>>
  /\ trace' = IF is_version_projected(manifest, v)
               THEN {"is_version_projected"}
               ELSE {"is_version_projected", "load_manifest"}
  /\ IF is_version_projected(manifest, v)
     THEN Finish(v, "skipped", "", published)
     ELSE IF ~load_manifest(v).found
     THEN Finish(v, "manifest_not_found", "load", published)
     ELSE IF load_manifest(v).files = <<>>
     THEN Finish(v, "empty", "", published)
     ELSE /\ pc' = "stage"
          /\ cur' = v
          /\ UNCHANGED <<result, pubAtSuccess>>

\* variant: a version with an empty file list is recorded as projected
ProjectBeginRecordingEmpty(v) ==
  /\ pc = "idle"
  /\ clock < MaxCalls
  /\ clock' = clock + 1
  /\ callBase' = Base(v, FALSE)
  /\ retryBase' = IF result.version = v /\ result.outcome = "failed"
                     /\ result.step \in {"stage", "merge", "publish"}
                  THEN [retryBase EXCEPT !.retry = TRUE]
                  ELSE Base(v, FALSE)
  /\ mergeIn' = NoMerge
  /\ lastMove' = NoMove
  /\ manifest' = IF ~is_version_projected(manifest, v) /\ load_manifest(v).found
                     /\ load_manifest(v).files = <<>>
                  THEN add_projected_version(manifest, v, clock')
                  ELSE manifest
  /\ UNCHANGED <<staging, published, publishCount, mcall>>
  /\ trace' = IF is_version_projected(manifest, v)
               THEN {"is_version_projected"}
               ELSE {"is_version_projected", "load_manifest"}
  /\ IF is_version_projected(manifest, v)
     THEN Finish(v, "skipped", "", published)
     ELSE IF ~load_manifest(v).found
     THEN Finish(v, "manifest_not_found", "load", published)
     ELSE IF load_manifest(v).files = <<>>
     THEN Finish(v, "empty", "", published)
     ELSE /\ pc' = "stage"
          /\ cur' = v
          /\ UNCHANGED <<result, pubAtSuccess>>

\* steps 1-3: idempotency check, load the version manifest, empty file list
ProjectBegin(v) ==
  /\ pc = "idle"
  /\ clock < MaxCalls
  /\ clock' = clock + 1
  /\ callBase' = Base(v, FALSE)
  /\ retryBase' = IF result.version = v /\ result.outcome = "failed"
                     /\ result.step \in {"stage", "merge", "publish"}
                  THEN [retryBase EXCEPT !.retry = TRUE]
                  ELSE Base(v, FALSE)
  /\ mergeIn' = NoMerge
  /\ lastMove' = NoMove
  /\ UNCHANGED <<staging, published, manifest, publishCount, mcall>>
  /\ trace' = IF is_version_projected(manifest, v)
               THEN {"is_version_projected"}
               ELSE {"is_version_projected", "load_manifest"}
  /\ IF is_version_projected(manifest, v)
     THEN Finish(v, "skipped", "", published)
     ELSE IF ~load_manifest(v).found
     THEN Finish(v, "manifest_not_found", "load", published)
     ELSE IF load_manifest(v).files = <<>>
     THEN Finish(v, "empty", "", published)
     ELSE /\ pc' = "stage"
          /\ cur' = v
          /\ UNCHANGED <<result, pubAtSuccess>>

\* step 4: StagingManager.copy_from_version
StageStep ==
  /\ pc = "stage"
  /\ \E ok \in SUBSET Range(load_manifest(cur).files) :
       LET r == copy_from_version(staging, cur, load_manifest(cur).files, ok)
       IN /\ staging' = r.staging
          /\ IF r.raised
             THEN Finish(cur, "failed", "stage", published)
             ELSE Continue("merge")
  /\ trace' = trace \cup {"copy_from_version"}
  /\ UNCHANGED <<published, manifest, clock, callBase, mergeIn, lastMove,
                 publishCount, retryBase, mcall>>

\* variant: the version is recorded right after the merge
MergeStepThenRecord ==
  /\ pc = "merge"
  /\ \E failed \in SUBSET list_staging_partitions(staging) :
       LET r == merge_all_partitions(staging, published, failed)
       IN /\ staging' = r.staging
          /\ mergeIn' = [merged |-> list_staging_partitions(staging) \ failed,
                         written |-> {p \in list_staging_partitions(staging) \ failed :
                                        merge_writes(staging, published, p)},
                         staging |-> staging]
          /\ IF r.raised
             THEN Finish(cur, "failed", "merge", published)
             ELSE Continue("record")
  /\ trace' = trace \cup {"merge_all_partitions"}
  /\ UNCHANGED <<published, manifest, clock, callBase, lastMove,
                 publishCount, retryBase, mcall>>

\* step 5: ProjectionMerger.merge_all_partitions
MergeStep ==
  /\ pc = "merge"
  /\ \E failed \in SUBSET list_staging_partitions(staging) :
       LET r == merge_all_partitions(staging, published, failed)
       IN /\ staging' = r.staging
          /\ mergeIn' = [merged |-> list_staging_partitions(staging) \ failed,
                         written |-> {p \in list_staging_partitions(staging) \ failed :
                                        merge_writes(staging, published, p)},
                         staging |-> staging]
          /\ IF r.raised
             THEN Finish(cur, "failed", "merge", published)
             ELSE Continue("publish")
  /\ trace' = trace \cup {"merge_all_partitions"}
  /\ UNCHANGED <<published, manifest, clock, callBase, lastMove,
                 publishCount, retryBase, mcall>>

\* step 6: AtomicProjectionMover.move_staging_to_projections
PublishStep ==
  /\ pc = "publish"
  /\ \E failAt \in 0..Len(get_staging_files(staging)) :
     \E rbFail \in SUBSET {get_staging_files(staging)[i] : i \in 1..(failAt - 1)} :
     \E delFail \in SUBSET (IF failAt = 0 THEN Range(get_staging_files(staging)) ELSE {}) :
       LET r == move_staging_to_projections(staging, published, failAt, rbFail, delFail)
       IN /\ staging' = r.staging
          /\ published' = r.published
          /\ lastMove' = [outcome |-> IF r.raised THEN "raised" ELSE "returned",
                          listed |-> r.listed, copied_files |-> r.copied_files,
                          failAt |-> failAt, rbFail |-> rbFail, delFail |-> delFail,
                          staging |-> staging, published |-> published]
          /\ publishCount' = IF r.raised THEN publishCount
                             ELSE [publishCount EXCEPT ![cur] = @ + 1]
          /\ IF r.raised
             THEN Finish(cur, "failed", "publish", r.published)
             ELSE Continue("record")
  /\ trace' = trace \cup {"move_staging_to_projections"}
  /\ UNCHANGED <<manifest, clock, callBase, mergeIn, retryBase, mcall>>

\* step 7: ProjectionManifestManager.add_projected_version; the put may fail
RecordStep ==
  /\ pc = "record"
  /\ \E ok \in BOOLEAN :
       IF ok
       THEN /\ manifest' = add_projected_version(manifest, cur, clock)
            /\ Continue("cleanup")
       ELSE /\ manifest' = manifest
            /\ Finish(cur, "failed", "record", published)
  /\ trace' = trace \cup {"add_projected_version"}
  /\ UNCHANGED <<staging, published, clock, callBase, mergeIn, lastMove,
                 publishCount, retryBase, mcall>>

\* step 8: StagingManager.clear_staging
CleanupStep ==
  /\ pc = "cleanup"
  /\ \E kept \in SUBSET {k \in Keys : staging[k].exists} :
       LET r == clear_staging(staging, kept)
       IN /\ staging' = r.staging
          /\ IF r.raised
             THEN Finish(cur, "failed", "cleanup", published)
             ELSE Finish(cur, "done", "", published)
  /\ trace' = trace \cup {"clear_staging"}
  /\ UNCHANGED <<published, manifest, clock, callBase, mergeIn, lastMove,
                 publishCount, retryBase, mcall>>

Init == ProjInit /\ StateOff /\ LockOff /\ RunsOff /\ FanOff /\ CallsOff /\ EtlOff

Next ==
  \/ \E v \in Versions : ProjectBegin(v) /\ UNCHANGED <<stateVars, lockVars, runVars, fanVars, callVars, etlVars>>
  \/ StageStep /\ UNCHANGED <<stateVars, lockVars, runVars, fanVars, callVars, etlVars>>
  \/ MergeStep /\ UNCHANGED <<stateVars, lockVars, runVars, fanVars, callVars, etlVars>>
  \/ PublishStep /\ UNCHANGED <<stateVars, lockVars, runVars, fanVars, callVars, etlVars>>
  \/ RecordStep /\ UNCHANGED <<stateVars, lockVars, runVars, fanVars, callVars, etlVars>>
  \/ CleanupStep /\ UNCHANGED <<stateVars, lockVars, runVars, fanVars, callVars, etlVars>>

Spec == Init /\ [][Next]_vars

(***************************************************************************)
(* One save_dates_from_data call on a state backend, from any stored       *)
(* content and any batch                                                   *)
(***************************************************************************)
InitState ==
  /\ ProjInit
  /\ backend \in Backends
  /\ stored \in StoredContents
  /\ before = stored
  /\ batch \in Batches
  /\ spc = "ready"
  /\ LockOff
  /\ RunsOff
  /\ FanOff
  /\ CallsOff /\ EtlOff

SaveDatesFromData ==
  /\ spc = "ready"
  /\ stored' = save_dates_from_data(backend, stored, batch)
  /\ spc' = "saved"
  /\ UNCHANGED <<backend, before, batch>>
  /\ UNCHANGED <<projVars, lockVars, runVars, fanVars, callVars, etlVars>>

NextState == SaveDatesFromData

SpecState == InitState /\ [][NextState]_vars

(***************************************************************************)
(* The two state managers side by side: both start from the same stored    *)
(* content and get the same calls                                          *)
(***************************************************************************)
MaxCallBatch == 1

CallBatches == UNION {[1..n -> DataPoints] : n \in 0..MaxCallBatch}

\* what a state file or state object can hold, written by the program or not
StoredEntries == {NoEntry, Malformed} \cup {isoformat(Datetime(t, FALSE)) : t \in Times}

AnyStoredContents ==
  {Missing, InvalidJson, Empty}
    \cup {Json([s \in SeriesCodes |-> IF s = NoSeries THEN NoEntry ELSE f[s]]) :
            f \in [Series -> StoredEntries]}

InitCalls ==
  /\ ProjInit /\ StateOff /\ LockOff /\ RunsOff /\ FanOff /\ EtlOff
  /\ \E content \in AnyStoredContents : stores = [b \in Backends |-> content]
  /\ answers = [b \in Backends |-> NoAnswer]
  /\ call = NoStateCall
  /\ cpc = "on"

callFrame == <<projVars, stateVars, lockVars, runVars, fanVars, etlVars>>

SaveDatesCall(data) ==
  /\ cpc = "on"
  /\ stores' = [b \in Backends |-> save_dates_from_data(b, stores[b], data)]
  /\ answers' = [b \in Backends |-> NoAnswer]
  /\ call' = [op |-> "save_dates_from_data", series_code |-> NoSeries, config |-> {},
              data |-> data, before |-> stores]
  /\ UNCHANGED cpc

GetLastDateCall(series_code) ==
  /\ cpc = "on"
  /\ answers' = [b \in Backends |->
                   IF get_last_date_raises(b, stores[b], series_code)
                   THEN [NoAnswer EXCEPT !.raised = TRUE]
                   ELSE [NoAnswer EXCEPT !.date = get_last_date(b, stores[b], series_code)]]
  /\ call' = [op |-> "get_last_date", series_code |-> series_code, config |-> {},
              data |-> <<>>, before |-> stores]
  /\ UNCHANGED <<stores, cpc>>

GetSeriesLastDatesCall(config) ==
  /\ cpc = "on"
  /\ answers' = [b \in Backends |->
                   IF get_series_last_dates_raises(b, stores[b], config)
                   THEN [NoAnswer EXCEPT !.raised = TRUE]
                   ELSE [NoAnswer EXCEPT
                           !.dates = get_series_last_dates(b, stores[b], config)]]
  /\ call' = [op |-> "get_series_last_dates", series_code |-> NoSeries,
              config |-> config, data |-> <<>>, before |-> stores]
  /\ UNCHANGED <<stores, cpc>>

NextCalls ==
  \/ \E data \in CallBatches : SaveDatesCall(data) /\ UNCHANGED callFrame
  \/ \E series_code \in SeriesCodes : GetLastDateCall(series_code) /\ UNCHANGED callFrame
  \/ \E config \in Configs : GetSeriesLastDatesCall(config) /\ UNCHANGED callFrame

SpecCalls == InitCalls /\ [][NextCalls]_vars

(***************************************************************************)
(* The merger and the mover called directly on any staging and published   *)
(* area: merge_partition or merge_all_partitions, then                     *)
(* move_staging_to_projections                                             *)
(***************************************************************************)
\* the data files a partition can hold: those of the version snapshots
DataTables(p) == {VersionData[v][<<p, DataFile>>] : v \in Versions}

\* an object that is not a table
OtherObject == File(<<>>)

StoreObjects == UNION {DataTables(p) : p \in Partitions} \cup {NoFile, OtherObject}

\* staging holds a version's files, data files and others
StagingStores ==
  {s \in [Keys -> StoreObjects] :
     \A k \in Keys : s[k] \in (IF k[2] = DataFile THEN DataTables(k[1])
                                 ELSE {NoFile, OtherObject})}

\* the published area holds the data files earlier merges wrote
PublishedStores == {s \in StagingStores : \A k \in Keys : k[2] # DataFile => ~s[k].exists}

InitStore ==
  /\ staging \in StagingStores
  /\ published \in PublishedStores
  /\ manifest = NoProjectionManifest
  /\ clock = 0
  /\ pc = "idle"
  /\ cur = NoVersion
  /\ result = NoResult
  /\ callBase = NoBase
  /\ mergeIn = NoMerge
  /\ lastMove = NoMove
  /\ pubAtSuccess = {}
  /\ publishCount = [v \in Versions |-> 0]
  /\ retryBase = NoBase
  /\ trace = {}
  /\ mcall = NoCall
  /\ StateOff /\ LockOff /\ RunsOff /\ FanOff /\ CallsOff /\ EtlOff

storeFrame == <<manifest, clock, pc, cur, callBase, pubAtSuccess, publishCount,
                retryBase, trace, mcall>>

\* ProjectionMerger.merge_partition(dataset_id, partition); the task may raise
\* before its upload
MergePartitionCall(p) ==
  /\ result = NoResult
  /\ \E ok \in BOOLEAN :
       /\ staging' = IF ok THEN merge_partition(staging, published, p) ELSE staging
       /\ mergeIn' = [merged |-> IF ok THEN {p} ELSE {},
                      written |-> IF ok /\ merge_writes(staging, published, p)
                                  THEN {p} ELSE {},
                      staging |-> staging]
       /\ result' = [version |-> NoVersion,
                     outcome |-> IF ok THEN "returned" ELSE "failed",
                     step |-> "merge_partition"]
  /\ UNCHANGED <<published, lastMove, storeFrame>>

\* merge_partition called a second time in a row on the same partition;
\* mergeIn keeps the staging area as the first call left it
MergePartitionAgain(p) ==
  /\ result.step = "merge_partition"
  /\ result.outcome = "returned"
  /\ mergeIn.merged = {p}
  /\ \E ok \in BOOLEAN :
       /\ staging' = IF ok THEN merge_partition(staging, published, p) ELSE staging
       /\ mergeIn' = [merged |-> IF ok THEN {p} ELSE {},
                      written |-> IF ok /\ merge_writes(staging, published, p)
                                  THEN {p} ELSE {},
                      staging |-> staging]
       /\ result' = [version |-> NoVersion,
                     outcome |-> IF ok THEN "returned" ELSE "failed",
                     step |-> "merge_partition_again"]
  /\ UNCHANGED <<published, lastMove, storeFrame>>

\* ProjectionMerger.merge_all_partitions(dataset_id)
MergeAllCall ==
  /\ result = NoResult
  /\ \E failed \in SUBSET list_staging_partitions(staging) :
       LET r == merge_all_partitions(staging, published, failed)
       IN /\ staging' = r.staging
          /\ mergeIn' = [merged |-> list_staging_partitions(staging) \ failed,
                         written |-> {p \in list_staging_partitions(staging) \ failed :
                                        merge_writes(staging, published, p)},
                         staging |-> staging]
          /\ result' = [version |-> NoVersion,
                        outcome |-> IF r.raised THEN "failed" ELSE "returned",
                        step |-> "merge"]
  /\ UNCHANGED <<published, lastMove, storeFrame>>

\* AtomicProjectionMover.move_staging_to_projections(dataset_id)
MoveCall ==
  /\ result.step # "publish"
  /\ result.outcome # "failed"
  /\ \E failAt \in 0..Len(get_staging_files(staging)) :
     \E rbFail \in SUBSET {get_staging_files(staging)[i] : i \in 1..(failAt - 1)} :
     \E delFail \in SUBSET (IF failAt = 0 THEN Range(get_staging_files(staging)) ELSE {}) :
       LET r == move_staging_to_projections(staging, published, failAt, rbFail, delFail)
       IN /\ staging' = r.staging
          /\ published' = r.published
          /\ lastMove' = [outcome |-> IF r.raised THEN "raised" ELSE "returned",
                          listed |-> r.listed, copied_files |-> r.copied_files,
                          failAt |-> failAt, rbFail |-> rbFail, delFail |-> delFail,
                          staging |-> staging, published |-> published]
          /\ result' = [version |-> NoVersion,
                        outcome |-> IF r.raised THEN "failed" ELSE "returned",
                        step |-> "publish"]
  /\ UNCHANGED <<mergeIn, storeFrame>>

NextStore ==
  \/ \E p \in Partitions :
       MergePartitionCall(p) /\ UNCHANGED <<stateVars, lockVars, runVars, fanVars, callVars, etlVars>>
  \/ \E p \in Partitions :
       MergePartitionAgain(p) /\ UNCHANGED <<stateVars, lockVars, runVars, fanVars, callVars, etlVars>>
  \/ MergeAllCall /\ UNCHANGED <<stateVars, lockVars, runVars, fanVars, callVars, etlVars>>
  \/ MoveCall /\ UNCHANGED <<stateVars, lockVars, runVars, fanVars, callVars, etlVars>>

SpecStore == InitStore /\ [][NextStore]_vars

(***************************************************************************)
(* merge_all_partitions with its worker pool in view: every listed         *)
(* partition is submitted, at most merge_workers tasks run at a time, the  *)
(* call ends when the pool has shut down                                   *)
(***************************************************************************)
\* the merge_workers values of the model
Widths == {1, 2, 3}

InitFan ==
  /\ staging \in StagingStores
  /\ published \in PublishedStores
  /\ manifest = NoProjectionManifest
  /\ clock = 0
  /\ pc = "idle"
  /\ cur = NoVersion
  /\ result = NoResult
  /\ callBase = NoBase
  /\ mergeIn = NoMerge
  /\ lastMove = NoMove
  /\ pubAtSuccess = {}
  /\ publishCount = [v \in Versions |-> 0]
  /\ retryBase = NoBase
  /\ trace = {}
  /\ mcall = NoCall
  /\ StateOff /\ LockOff /\ RunsOff /\ CallsOff /\ EtlOff
  /\ FanIdle
  /\ merge_workers \in Widths
  /\ fpc = "ready"

fanFrame == <<published, manifest, clock, pc, cur, result, callBase, lastMove,
              pubAtSuccess, publishCount, retryBase, trace, mcall,
              stateVars, lockVars, runVars, callVars, etlVars>>

\* the tasks a worker is running
Running == {p \in Partitions : futures[p] \in {"running", "merged"}}

\* variant: a task is submitted for every partition of the dataset
MergeAllSubmitEveryPartition ==
  /\ fpc = "ready"
  /\ futures' = [p \in Partitions |-> "pending"]
  /\ mergeIn' = [merged |-> {}, written |-> {}, staging |-> staging]
  /\ fpc' = "joining"
  /\ UNCHANGED <<staging, merge_workers, mergeCalls, tlocal>>

\* list_staging_partitions, then one executor.submit per listed partition
MergeAllSubmit ==
  /\ fpc = "ready"
  /\ futures' = [p \in Partitions |->
                   IF p \in list_staging_partitions(staging) THEN "pending" ELSE "none"]
  /\ mergeIn' = [merged |-> {}, written |-> {}, staging |-> staging]
  /\ fpc' = "joining"
  /\ UNCHANGED <<staging, merge_workers, mergeCalls, tlocal>>

\* a free worker takes a pending task: merge_partition is called
TaskStart(p) ==
  /\ fpc = "joining"
  /\ futures[p] = "pending"
  /\ Cardinality(Running) < merge_workers
  /\ futures' = [futures EXCEPT ![p] = "running"]
  /\ mergeCalls' = [mergeCalls EXCEPT ![p] = @ + 1]
  /\ UNCHANGED <<staging, mergeIn, merge_workers, tlocal, fpc>>

\* variant: the tasks keep their merged table in one shared buffer
TaskReadSharedBuffer(p) ==
  /\ futures[p] = "running"
  /\ \E ok \in BOOLEAN :
       /\ futures' = [futures EXCEPT ![p] = IF ok THEN "merged" ELSE "failed"]
       /\ tlocal' = IF ok
                    THEN [q \in Partitions |-> merge_data(published[<<p, DataFile>>],
                                                          staging[<<p, DataFile>>])]
                    ELSE tlocal
  /\ UNCHANGED <<staging, mergeIn, merge_workers, mergeCalls, fpc>>

\* the task downloads its two files and merges them; a download may raise
TaskRead(p) ==
  /\ futures[p] = "running"
  /\ \E ok \in BOOLEAN :
       /\ futures' = [futures EXCEPT ![p] = IF ok THEN "merged" ELSE "failed"]
       /\ tlocal' = IF ok
                    THEN [tlocal EXCEPT ![p] = merge_data(published[<<p, DataFile>>],
                                                          staging[<<p, DataFile>>])]
                    ELSE tlocal
  /\ UNCHANGED <<staging, mergeIn, merge_workers, mergeCalls, fpc>>

\* the task uploads a merged table that has rows; the upload may raise
TaskWrite(p) ==
  /\ futures[p] = "merged"
  /\ \E ok \in BOOLEAN :
       /\ futures' = [futures EXCEPT ![p] = IF ok THEN "done" ELSE "failed"]
       /\ staging' = IF ok /\ tlocal[p].exists /\ Len(tlocal[p].rows) > 0
                     THEN [staging EXCEPT ![<<p, DataFile>>] = tlocal[p]]
                     ELSE staging
       /\ mergeIn' = IF ok
                     THEN [mergeIn EXCEPT !.merged = @ \cup {p},
                                          !.written = IF tlocal[p].exists
                                                         /\ Len(tlocal[p].rows) > 0
                                                      THEN @ \cup {p} ELSE @]
                     ELSE mergeIn
  /\ UNCHANGED <<merge_workers, mergeCalls, tlocal, fpc>>

\* variant: the error of a failed task is re-raised without waiting for the pool
MergeAllJoinAtFirstFailure ==
  /\ fpc = "joining"
  /\ \/ \E p \in Partitions : futures[p] = "failed"
     \/ \A p \in Partitions : futures[p] \in {"none", "done"}
  /\ fpc' = IF \E p \in Partitions : futures[p] = "failed" THEN "raised" ELSE "returned"
  /\ UNCHANGED <<staging, mergeIn, merge_workers, futures, mergeCalls, tlocal>>

\* the executor has shut down: every submitted task has ended; the call
\* returns, or re-raises the error of a failed task
MergeAllJoin ==
  /\ fpc = "joining"
  /\ \A p \in Partitions : futures[p] \in {"none", "done", "failed"}
  /\ fpc' = IF \E p \in Partitions : futures[p] = "failed" THEN "raised" ELSE "returned"
  /\ UNCHANGED <<staging, mergeIn, merge_workers, futures, mergeCalls, tlocal>>

NextFan ==
  \/ MergeAllSubmit /\ UNCHANGED fanFrame
  \/ \E p \in Partitions : TaskStart(p) /\ UNCHANGED fanFrame
  \/ \E p \in Partitions : TaskRead(p) /\ UNCHANGED fanFrame
  \/ \E p \in Partitions : TaskWrite(p) /\ UNCHANGED fanFrame
  \/ MergeAllJoin /\ UNCHANGED fanFrame

SpecFan == InitFan /\ [][NextFan]_vars

(***************************************************************************)
(* ETLUseCase.execute, one call after the other for one dataset: acquire,  *)
(* extract, read the watermarks, parse, normalize, save the watermarks,    *)
(* transform, load, project, release                                       *)
(***************************************************************************)
\* lock_key of the dataset
DatasetKey == "etl:d1"

MaxRows == 2

\* the dates of the sheet rows (naive datetimes, days of 2025-01)
SheetTimes == {5, 10}

\* a row of a series' sheet: its date cell is a datetime or something else
SheetRows ==
  {DataPoint(s, Datetime(t, FALSE)) : s \in Series, t \in SheetTimes}
    \cup {DataPoint(s, NotADatetime) : s \in Series}

Workbooks == UNION {[1..n -> SheetRows] : n \in 0..MaxRows}

\* parse_config.series_map
SeriesMap == <<"S1", "S2">>

\* variant: a row dated at the watermark is kept
skip_row_before_only(row, last_date) ==
  /\ last_date.found /\ row.obs_time.isdt
  /\ row.obs_time.wall < to_naive(Datetime(last_date.wall, FALSE)).wall

\* the filter of _extract_series: with a last_date, a row whose date is a
\* datetime <= to_naive(last_date) is skipped
skip_row(row, last_date) ==
  /\ last_date.found /\ row.obs_time.isdt
  /\ row.obs_time.wall <= to_naive(Datetime(last_date.wall, FALSE)).wall

\* _extract_series: the rows of the series in sheet order, without the
\* skipped ones
RECURSIVE extract_series(_, _, _)
extract_series(rows, s, last_date) ==
  IF rows = <<>> THEN <<>>
  ELSE LET row == Head(rows)
           rest == extract_series(Tail(rows), s, last_date)
       IN IF row.internal_series_code # s \/ skip_row(row, last_date)
          THEN rest
          ELSE <<row>> \o rest

\* parse: the series of the series_map one after the other
RECURSIVE parse(_, _, _)
parse(raw_data, series_map, last_dates) ==
  IF series_map = <<>> THEN <<>>
  ELSE extract_series(raw_data, Head(series_map), last_dates[Head(series_map)])
         \o parse(raw_data, Tail(series_map), last_dates)

\* normalize: rows without a datetime are dropped, the others get the
\* configured timezone
normalize(data) ==
  LET valid(row) == row.obs_time.isdt
      kept == SelectSeq(data, valid)
  IN [i \in 1..Len(kept) |->
        DataPoint(kept[i].internal_series_code, Datetime(kept[i].obs_time.wall, TRUE))]

\* the caller of the run under observation, and the other process
EtlRunner == "A"

OtherProcess == "B"

\* the lock table as the first run finds it: the other process took the lock
\* at second 0 with this expiration_time, and it is second 1 now
ForeignLock(expiration_time) ==
  /\ lockTable = [k \in LockKeys |-> LockItem(expiration_time, 0)]
  /\ epoch = 1
  /\ holds = [c \in Callers |-> [k \in LockKeys |->
                IF c = OtherProcess
                THEN [held |-> TRUE, expiration_time |-> expiration_time]
                ELSE NoHold]]
  /\ grant = [k \in LockKeys |-> [caller |-> OtherProcess, released |-> FALSE]]
  /\ lastOp = NoOp
  /\ staleRelease = FALSE
  /\ stolen = NoStolen
  /\ lpc = "on"

InitEtl ==
  /\ ProjInit /\ RunsOff /\ FanOff /\ CallsOff
  /\ backend \in Backends
  /\ stored = Missing
  /\ before = Missing
  /\ batch = <<>>
  /\ spc = "off"
  /\ \/ LockOff
     \/ LockIdle /\ lpc = "on"
     \/ \E expiration_time \in {0, 2} : ForeignLock(expiration_time)
  /\ EtlFresh
  /\ epc = "start"

etlFrame == <<projVars, runVars, fanVars, callVars>>

\* where an exception or the return of _execute_etl goes: the finally block
\* releases when a lock manager is configured
Finally == IF lpc = "on" THEN "release" ELSE "done"

\* variant: the acquire sits inside the try, its False reaches the finally
EtlAcquireInsideTry ==
  /\ epc = "start" /\ lpc = "on"
  /\ \E T \in Timeouts : Acquire(EtlRunner, DatasetKey, T)
  /\ eacq' = IF lastOp'.raised THEN "raised" ELSE IF lastOp'.returned THEN "true" ELSE "false"
  /\ eerr' = IF lastOp'.raised THEN "acquire" ELSE IF lastOp'.returned THEN "" ELSE "RuntimeError"
  /\ epc' = IF lastOp'.returned THEN "extract" ELSE "release"
  /\ UNCHANGED <<esteps, ereleases, workbook, marks, edata, stateVars>>

\* variant: the result of acquire is not looked at
EtlAcquireUnchecked ==
  /\ epc = "start" /\ lpc = "on"
  /\ \E T \in Timeouts : Acquire(EtlRunner, DatasetKey, T)
  /\ eacq' = IF lastOp'.raised THEN "raised" ELSE IF lastOp'.returned THEN "true" ELSE "false"
  /\ eerr' = IF lastOp'.raised THEN "acquire" ELSE ""
  /\ epc' = IF lastOp'.raised THEN "done" ELSE "extract"
  /\ UNCHANGED <<esteps, ereleases, workbook, marks, edata, stateVars>>

\* execute with a lock manager: acquire; RuntimeError when it returns False,
\* and its own exception propagates; both leave before the try
EtlAcquire ==
  /\ epc = "start" /\ lpc = "on"
  /\ \E T \in Timeouts : Acquire(EtlRunner, DatasetKey, T)
  /\ eacq' = IF lastOp'.raised THEN "raised" ELSE IF lastOp'.returned THEN "true" ELSE "false"
  /\ eerr' = IF lastOp'.raised THEN "acquire" ELSE IF lastOp'.returned THEN "" ELSE "RuntimeError"
  /\ epc' = IF lastOp'.returned THEN "extract" ELSE "done"
  /\ UNCHANGED <<esteps, ereleases, workbook, marks, edata, stateVars>>

\* a step raised: the exception leaves _execute_etl, whose locals are lost,
\* and reaches the finally block
Raised(step) ==
  /\ eerr' = step
  /\ epc' = Finally
  /\ workbook' = <<>>
  /\ marks' = [s \in SeriesCodes |-> NoDate]
  /\ edata' = <<>>

\* step 1: extractor.extract; without a lock manager it is the first thing
\* execute does
EtlExtract ==
  /\ epc = "extract" \/ (epc = "start" /\ lpc = "off")
  /\ esteps' = Append(esteps, "extract")
  /\ \E ok \in BOOLEAN :
       IF ok
       THEN /\ \E raw_data \in Workbooks : workbook' = raw_data
            /\ epc' = "state"
            /\ UNCHANGED <<eerr, marks, edata>>
       ELSE Raised("extract")
  /\ UNCHANGED <<eacq, ereleases, stateVars, lockVars>>

\* state_manager.get_series_last_dates(config)
EtlLoadState ==
  /\ epc = "state"
  /\ esteps' = Append(esteps, "get_series_last_dates")
  /\ \E ok \in BOOLEAN :
       IF ok /\ ~get_series_last_dates_raises(backend, stored, Range(SeriesMap))
       THEN /\ marks' = get_series_last_dates(backend, stored, Range(SeriesMap))
            /\ epc' = "parse"
            /\ UNCHANGED <<eerr, workbook, edata>>
       ELSE Raised("get_series_last_dates")
  /\ UNCHANGED <<eacq, ereleases, stateVars, lockVars>>

\* step 2: parser.parse(raw_data, config, series_last_dates)
EtlParse ==
  /\ epc = "parse"
  /\ esteps' = Append(esteps, "parse")
  /\ \E ok \in BOOLEAN :
       IF ok
       THEN /\ edata' = parse(workbook, SeriesMap, marks)
            /\ epc' = "normalize"
            /\ UNCHANGED <<eerr, workbook, marks>>
       ELSE Raised("parse")
  /\ UNCHANGED <<eacq, ereleases, stateVars, lockVars>>

\* step 3: normalizer.normalize(data, config)
EtlNormalize ==
  /\ epc = "normalize"
  /\ esteps' = Append(esteps, "normalize")
  /\ \E ok \in BOOLEAN :
       IF ok
       THEN /\ edata' = normalize(edata)
            /\ epc' = "save"
            /\ UNCHANGED <<eerr, workbook, marks>>
       ELSE Raised("normalize")
  /\ UNCHANGED <<eacq, ereleases, stateVars, lockVars>>

\* state_manager.save_dates_from_data(data), right after normalize
EtlSaveState ==
  /\ epc = "save"
  /\ esteps' = Append(esteps, "save_dates_from_data")
  /\ before' = stored
  /\ \E ok \in BOOLEAN :
       IF ok
       THEN /\ stored' = save_dates_from_data(backend, stored, edata)
            /\ epc' = "transform"
            /\ UNCHANGED <<eerr, workbook, marks, edata>>
       ELSE /\ Raised("save_dates_from_data")
            /\ UNCHANGED stored
  /\ UNCHANGED <<eacq, ereleases, lockVars, backend, batch, spc>>

\* step 4: transformer.transform(data, config); it adds metadata to the rows
EtlTransform ==
  /\ epc = "transform"
  /\ esteps' = Append(esteps, "transform")
  /\ \E ok \in BOOLEAN :
       IF ok
       THEN epc' = "load" /\ UNCHANGED <<eerr, workbook, marks, edata>>
       ELSE Raised("transform")
  /\ UNCHANGED <<eacq, ereleases, stateVars, lockVars>>

\* step 5: loader.load(data, config)
EtlLoad ==
  /\ epc = "load"
  /\ esteps' = Append(esteps, "load")
  /\ \E ok \in BOOLEAN :
       IF ok
       THEN epc' = "project" /\ UNCHANGED <<eerr, workbook, marks, edata>>
       ELSE Raised("load")
  /\ UNCHANGED <<eacq, ereleases, stateVars, lockVars>>

\* step 6: _execute_projection; its exception is logged and re-raised;
\* then _execute_etl returns data
EtlProject ==
  /\ epc = "project"
  /\ esteps' = Append(esteps, "project")
  /\ \E ok \in BOOLEAN :
       IF ok
       THEN epc' = Finally /\ UNCHANGED <<eerr, workbook, marks, edata>>
       ELSE Raised("project")
  /\ UNCHANGED <<eacq, ereleases, stateVars, lockVars>>

\* the finally block: lock_manager.release(lock_key)
EtlRelease ==
  /\ epc = "release"
  /\ Release(EtlRunner, DatasetKey)
  /\ ereleases' = ereleases + 1
  /\ eerr' = IF lastOp'.raised THEN "release" ELSE eerr
  /\ epc' = "done"
  /\ UNCHANGED <<eacq, esteps, workbook, marks, edata, stateVars>>

\* the call has ended; the next execute call starts from nothing
EtlReturn ==
  /\ epc = "done"
  /\ epc' = "start"
  /\ eacq' = "none"
  /\ eerr' = ""
  /\ esteps' = <<>>
  /\ ereleases' = 0
  /\ workbook' = <<>>
  /\ marks' = [s \in SeriesCodes |-> NoDate]
  /\ edata' = <<>>
  /\ UNCHANGED <<stateVars, lockVars>>

NextEtl ==
  \/ EtlAcquire /\ UNCHANGED etlFrame
  \/ EtlExtract /\ UNCHANGED etlFrame
  \/ EtlLoadState /\ UNCHANGED etlFrame
  \/ EtlParse /\ UNCHANGED etlFrame
  \/ EtlNormalize /\ UNCHANGED etlFrame
  \/ EtlSaveState /\ UNCHANGED etlFrame
  \/ EtlTransform /\ UNCHANGED etlFrame
  \/ EtlLoad /\ UNCHANGED etlFrame
  \/ EtlProject /\ UNCHANGED etlFrame
  \/ EtlRelease /\ UNCHANGED etlFrame
  \/ EtlReturn /\ UNCHANGED etlFrame

SpecEtl == InitEtl /\ [][NextEtl]_vars

(***************************************************************************)
(* The projection manifest manager called directly, in any order           *)
(***************************************************************************)
\* add_projected_version(dataset_id, version_id); the put of the manifest may fail
AddProjectedVersion(v) ==
  /\ clock < MaxCalls
  /\ clock' = clock + 1
  /\ \E ok \in BOOLEAN :
       /\ manifest' = IF ok THEN add_projected_version(manifest, v, clock')
                      ELSE manifest
       /\ mcall' = [op |-> "add", version |-> v, before |-> manifest,
                    returned |-> FALSE, raised |-> ~ok]
  /\ UNCHANGED <<staging, published, pc, cur, result, callBase, mergeIn, lastMove,
                 pubAtSuccess, publishCount, retryBase, trace>>

\* is_version_projected(dataset_id, version_id)
IsVersionProjected(v) ==
  /\ clock < MaxCalls
  /\ clock' = clock + 1
  /\ mcall' = [op |-> "is", version |-> v, before |-> manifest,
               returned |-> is_version_projected(manifest, v), raised |-> FALSE]
  /\ UNCHANGED <<staging, published, manifest, pc, cur, result, callBase, mergeIn,
                 lastMove, pubAtSuccess, publishCount, retryBase, trace>>

NextManifest ==
  \/ \E v \in Versions :
       AddProjectedVersion(v) /\ UNCHANGED <<stateVars, lockVars, runVars, fanVars, callVars, etlVars>>
  \/ \E v \in Versions :
       IsVersionProjected(v) /\ UNCHANGED <<stateVars, lockVars, runVars, fanVars, callVars, etlVars>>

SpecManifest == Init /\ [][NextManifest]_vars

(***************************************************************************)
(* The lock manager called by any caller, on any key, at any second        *)
(***************************************************************************)
InitLock == ProjInit /\ StateOff /\ LockIdle /\ lpc = "on" /\ RunsOff /\ FanOff /\ CallsOff /\ EtlOff

NextLock ==
  \/ \E c \in Callers, k \in LockKeys, T \in Timeouts :
       Acquire(c, k, T) /\ UNCHANGED <<projVars, stateVars, runVars, fanVars, callVars, etlVars>>
  \/ \E c \in Callers, k \in LockKeys :
       Release(c, k) /\ UNCHANGED <<projVars, stateVars, runVars, fanVars, callVars, etlVars>>
  \/ Tick /\ UNCHANGED <<projVars, stateVars, runVars, fanVars, callVars, etlVars>>

SpecLock == InitLock /\ [][NextLock]_vars

(***************************************************************************)
(* Concurrent ETLUseCase.execute runs for one dataset, each built with the *)
(* lock manager and a projection use case                                  *)
(***************************************************************************)
\* the version each run loads and then projects (versions with data files)
RunVersion == [r \in Callers |-> CASE r = "A" -> "v1" [] r = "B" -> "v2" [] OTHER -> "v4"]

\* positions between acquire returning True and the release in the finally block
InPipeline == {"etl", "read", "write"}

InitRuns ==
  /\ ProjInit /\ StateOff /\ LockIdle /\ lpc = "on"
  /\ rpc = [r \in Callers |-> "start"]
  /\ rlocal = [r \in Callers |-> NoProjectionManifest]
  /\ recorded = {}
  /\ FanOff
  /\ CallsOff /\ EtlOff

\* variant: the run goes on whatever acquire returned
RunAcquireUnchecked(r) ==
  /\ rpc[r] = "start"
  /\ \E T \in Timeouts : Acquire(r, DatasetKey, T)
  /\ rpc' = [rpc EXCEPT ![r] = IF lastOp'.raised THEN "refused" ELSE "etl"]
  /\ UNCHANGED <<rlocal, recorded, manifest>>

\* execute: acquire, RuntimeError when it returns False
RunAcquire(r) ==
  /\ rpc[r] = "start"
  /\ \E T \in Timeouts : Acquire(r, DatasetKey, T)
  /\ rpc' = [rpc EXCEPT ![r] = IF lastOp'.returned THEN "etl" ELSE "refused"]
  /\ UNCHANGED <<rlocal, recorded, manifest>>

\* _execute_etl up to the load: extract, parse, normalize, transform, load;
\* a step that raises sends the run to the finally block
RunEtl(r) ==
  /\ rpc[r] = "etl"
  /\ \E ok \in BOOLEAN : rpc' = [rpc EXCEPT ![r] = IF ok THEN "read" ELSE "release"]
  /\ UNCHANGED <<rlocal, recorded, manifest, lockVars>>

\* _execute_projection up to the read of add_projected_version
RunRead(r) ==
  /\ rpc[r] = "read"
  /\ rlocal' = [rlocal EXCEPT ![r] = manifest]
  /\ rpc' = [rpc EXCEPT ![r] = "write"]
  /\ UNCHANGED <<recorded, manifest, lockVars>>

\* the write of add_projected_version: the manifest as read, with the version
RunWrite(r) ==
  /\ rpc[r] = "write"
  /\ manifest' = add_projected_version(rlocal[r], RunVersion[r], epoch)
  /\ recorded' = recorded \cup {RunVersion[r]}
  /\ rpc' = [rpc EXCEPT ![r] = "release"]
  /\ UNCHANGED <<rlocal, lockVars>>

\* the finally block of execute
RunRelease(r) ==
  /\ rpc[r] = "release"
  /\ Release(r, DatasetKey)
  /\ rpc' = [rpc EXCEPT ![r] = "done"]
  /\ UNCHANGED <<rlocal, recorded, manifest>>

RunTick == Tick /\ UNCHANGED <<runVars, manifest>>

runFrame == <<staging, published, clock, pc, cur, result, callBase, mergeIn,
              lastMove, pubAtSuccess, publishCount, retryBase, trace, mcall>>

NextRuns ==
  \/ \E r \in Callers : RunAcquire(r) /\ UNCHANGED <<runFrame, stateVars, fanVars, callVars, etlVars>>
  \/ \E r \in Callers : RunEtl(r) /\ UNCHANGED <<runFrame, stateVars, fanVars, callVars, etlVars>>
  \/ \E r \in Callers : RunRead(r) /\ UNCHANGED <<runFrame, stateVars, fanVars, callVars, etlVars>>
  \/ \E r \in Callers : RunWrite(r) /\ UNCHANGED <<runFrame, stateVars, fanVars, callVars, etlVars>>
  \/ \E r \in Callers : RunRelease(r) /\ UNCHANGED <<runFrame, stateVars, fanVars, callVars, etlVars>>
  \/ RunTick /\ UNCHANGED <<runFrame, stateVars, fanVars, callVars, etlVars>>

SpecRuns == InitRuns /\ [][NextRuns]_vars

TypeOK ==
  /\ pc \in {"idle", "stage", "merge", "publish", "record", "cleanup"}
  /\ clock \in 0..MaxCalls

(***************************************************************************)
(* Properties of the projection engine                                     *)
(***************************************************************************)
\* merge_all_partitions has just run: the published area is as the merge read it
MergeJustRan ==
  /\ mergeIn.merged # {}
  /\ pc = "publish" \/ (pc = "idle" /\ result.step = "merge")

\* move_staging_to_projections has just run: neither store has changed since
MoveJustRan ==
  /\ lastMove.outcome # "none"
  /\ pc = "record" \/ (pc = "idle" /\ result.step = "publish")

\* the identity keys that both the staged and the published file of p hold
SharedKeys(p) ==
  {IdentityKey(r) : r \in Range(mergeIn.staging[<<p, DataFile>>].rows)}
    \cap {IdentityKey(r) : r \in Range(published[<<p, DataFile>>].rows)}

RowsOfKey(file, key) == {r \in Range(file.rows) : IdentityKey(r) = key}

\* C1: when the staged and the published file of a merged partition both
\* exist, the merged file written to staging holds, for every identity key
\* they share, a row of the published file and no other row.
C1_PublishedWins ==
  MergeJustRan =>
    \A p \in mergeIn.merged :
      (mergeIn.staging[<<p, DataFile>>].exists /\ published[<<p, DataFile>>].exists) =>
        \A key \in SharedKeys(p) :
          /\ RowsOfKey(staging[<<p, DataFile>>], key) # {}
          /\ RowsOfKey(staging[<<p, DataFile>>], key)
               \subseteq RowsOfKey(published[<<p, DataFile>>], key)

\* C1 witness: a merge met a key staged with one value and published with another
C1_Witness ==
  /\ MergeJustRan
  /\ \E p \in mergeIn.merged : \E key \in SharedKeys(p) :
       RowsOfKey(mergeIn.staging[<<p, DataFile>>], key)
         # RowsOfKey(published[<<p, DataFile>>], key)

\* C2: an observation published at the end of a successful project call is
\* published, with the same value, at the end of every later successful call.
C2_PublishedNeverLost ==
  (pc = "idle" /\ result.outcome \in Success) =>
    pubAtSuccess \subseteq Observations(published)

C4_PublishedUnchangedOnFailure ==
  (MoveJustRan /\ lastMove.outcome = "raised" /\ lastMove.rbFail = {}) =>
    published = lastMove.published

\* C5: a failed copy leaves staging as it was before the call, and a staging
\* object is deleted only by a call all of whose copies succeeded.
C5_StagingKeptOnFailure ==
  MoveJustRan =>
    /\ lastMove.outcome = "raised" => staging = lastMove.staging
    /\ staging # lastMove.staging =>
         /\ lastMove.outcome = "returned"
         /\ lastMove.copied_files = lastMove.listed
         /\ \A k \in lastMove.listed : published[k] = lastMove.staging[k]

\* C5 witness: a copy failed after another had been made, with files in staging
C5_Witness ==
  /\ MoveJustRan
  /\ lastMove.outcome = "raised"
  /\ lastMove.copied_files # {}
  /\ \E k \in Keys : staging[k].exists

\* the call in progress (or just ended) repeats the version of the call
\* before it, which had returned normally
SecondCall ==
  /\ callBase.version # NoVersion
  /\ callBase.prev.version = callBase.version
  /\ callBase.prev.outcome \in Success

\* C6: a second project call for a version whose first call succeeded leaves
\* the published partitions and the projection manifest as the first left them.
C6_ProjectIdempotent ==
  SecondCall => (published = callBase.published /\ manifest = callBase.manifest)

\* C6 witness: a version projected and recorded is projected again, at a later time
C6_Witness ==
  /\ SecondCall
  /\ callBase.prev.outcome = "done"
  /\ pc = "idle"
  /\ result.outcome = "skipped"
  /\ clock > manifest.last_projection_date

\* C7: the merge-and-publish of a version completes at most once.
C7_PublishedAtMostOnce == \A v \in Versions : publishCount[v] <= 1

\* the outcome of one project_version call in which nothing fails
FailureFree(base, v, now) ==
  LET files  == load_manifest(v).files
      staged == copy_from_version(base.staging, v, files, Range(files)).staging
      merged == merge_all_partitions(staged, base.published, {}).staging
      moved  == move_staging_to_projections(merged, base.published, 0, {}, {})
  IN [published |-> moved.published,
      manifest  |-> add_projected_version(base.manifest, v, now)]

\* C8: a project call that failed in staging, merge or publish and then
\* succeeded on retry leaves the published partitions and the projection
\* manifest that one failure-free call would have left.
C8_RetryEqualsFailureFree ==
  (pc = "idle" /\ result.outcome = "done" /\ retryBase.retry
     /\ retryBase.version = result.version) =>
    LET ff == FailureFree(retryBase, result.version, manifest.last_projection_date)
    IN published = ff.published /\ manifest = ff.manifest

(***************************************************************************)
(* Properties of the state managers                                        *)
(***************************************************************************)
\* the rows of the batch that count for a series
ValidRows(s) ==
  {i \in 1..Len(batch) :
     batch[i].internal_series_code = s /\ batch[i].obs_time.isdt}

SetMax(S) == CHOOSE x \in S : \A y \in S : y <= x

\* C9: the watermark get_last_date returns for a series never decreases
\* over a save_dates_from_data call, on either backend.
C9_WatermarkMonotonic ==
  spc = "saved" =>
    \A s \in Series :
      get_last_date(backend, before, s).found =>
        /\ get_last_date(backend, stored, s).found
        /\ get_last_date(backend, stored, s).wall
             >= get_last_date(backend, before, s).wall

ScenarioBefore ==
  Json([EmptyState EXCEPT !["S1"] = isoformat(Datetime(5, FALSE))])

ScenarioBatch ==
  << DataPoint("S1", Datetime(3, FALSE)), DataPoint("S1", Datetime(10, FALSE)),
     DataPoint("S2", Datetime(1, FALSE)) >>

ScenarioAfter ==
  Json([EmptyState EXCEPT !["S1"] = isoformat(Datetime(10, FALSE)),
                          !["S2"] = isoformat(Datetime(1, FALSE))])

\* C10: after save_dates_from_data every series with a valid row in the batch
\* has the maximum obs_time of its rows as watermark, whatever the row order;
\* a series without a valid row keeps what it had, and rows without a series
\* code create no entry; the scenario {S1: 5} with S1@3, S1@10, S2@1 gives
\* {S1: 10, S2: 1}.
C10_SaveTakesBatchMaximum ==
  spc = "saved" =>
    /\ \A s \in Series :
         IF ValidRows(s) # {}
         THEN get_last_date(backend, stored, s) =
                [found |-> TRUE,
                 wall  |-> SetMax({batch[i].obs_time.wall : i \in ValidRows(s)})]
         ELSE get_last_date(backend, stored, s) = get_last_date(backend, before, s)
    /\ ~load(backend, stored)[NoSeries].has
    /\ (before = ScenarioBefore /\ batch = ScenarioBatch) => stored = ScenarioAfter

\* C10 witness: the scenario's batch was saved over the scenario's watermarks
C10_Witness ==
  /\ spc = "saved"
  /\ before = ScenarioBefore
  /\ batch = ScenarioBatch
  /\ stored = ScenarioAfter


(***************************************************************************)
(* Properties of the lock manager                                          *)
(***************************************************************************)
\* the last call was acquire and DynamoDB evaluated its condition
AcquireEvaluated == lastOp.op = "acquire" /\ lastOp.outcome = "evaluated"

\* the item the last call found under its key
ItemBefore == lastOp.before[lastOp.key]

\* the callers whose lock on the key is unexpired
Holders(k) == {c \in Callers : Unexpired(c, k)}

\* C11: acquire returns True only when no item exists for the key or the item's
\* expiration_time is in the past; and as long as no caller released without an
\* unexpired lock of its own, at most one caller holds an unexpired lock on a key.
C11_MutualExclusion ==
  /\ (lastOp.op = "acquire" /\ lastOp.returned) =>
       (~ItemBefore.exists \/ ItemBefore.expiration_time < lastOp.now)
  /\ ~staleRelease => \A k \in LockKeys : Cardinality(Holders(k)) <= 1

\* an acquire took over the expired item of a caller that never released it
C11_Witness ==
  /\ lastOp.op = "acquire" /\ lastOp.returned
  /\ ItemBefore.exists
  /\ lastOp.grant.caller \in Callers \ {lastOp.caller}
  /\ holds[lastOp.grant.caller][lastOp.key].held
  /\ ~staleRelease
  /\ Holders(lastOp.key) = {lastOp.caller}

\* C12: when a lock taken with timeout T at time t0 was never released, an
\* acquire with timeout T by another caller at time t returns True if
\* t - t0 >= T and False if t - t0 < T.
C12_TTLSelfHeal ==
  ( /\ AcquireEvaluated
    /\ ItemBefore.exists
    /\ ~lastOp.grant.released
    /\ lastOp.grant.caller \in Callers \ {lastOp.caller}
    /\ lastOp.timeout = ItemBefore.expiration_time - ItemBefore.acquired_at )
  => (lastOp.returned <=> lastOp.now - ItemBefore.acquired_at >= lastOp.timeout)

\* C13: release deletes the item under the key whoever wrote it, and an acquire
\* that finds no item returns True: a release by a holder whose lock expired
\* lets a third caller in while the lock of the new holder is unexpired.
C13_ReleaseHasNoFencing ==
  /\ (lastOp.op = "release" /\ lastOp.outcome = "ok") => ~lockTable[lastOp.key].exists
  /\ (AcquireEvaluated /\ ~ItemBefore.exists) => lastOp.returned

\* A's lock expired, B holds the key, A's release deleted B's item and a third
\* caller has acquired the key while B's lock is unexpired
C13_Witness ==
  /\ lastOp.op = "acquire" /\ lastOp.returned /\ ~ItemBefore.exists
  /\ stolen.victim \in Callers
  /\ lastOp.caller \notin {stolen.victim, stolen.releaser}
  /\ Unexpired(stolen.victim, lastOp.key)
  /\ Unexpired(lastOp.caller, lastOp.key)

\* C14: release on a key without an item returns normally and leaves the table
\* as it was; releasing twice leaves the table as releasing once does, with no
\* item under the key.
C14_ReleaseIdempotent ==
  /\ (lastOp.op = "release" /\ ~ItemBefore.exists /\ lastOp.outcome # "other") =>
       (~lastOp.raised /\ lockTable = lastOp.before)
  /\ \A k \in LockKeys :
       LET once == release(lockTable, k, "ok")
       IN /\ release(once.table, k, "ok") = once
          /\ ~once.table[k].exists /\ ~once.raised

\* a second release in a row on a key whose item the first one deleted
C14_Witness ==
  /\ lastOp.op = "release" /\ lastOp.outcome = "ok"
  /\ ~ItemBefore.exists
  /\ lastOp.grant.caller \in Callers /\ lastOp.grant.released
  /\ ~lastOp.raised

\* C15: every acquire makes one put_item attempt; when the item under the key is
\* unexpired the call leaves the item as it was and returns False without
\* raising.
C15_AcquireNeverWaits ==
  lastOp.op = "acquire" =>
    /\ lastOp.put_calls = 1
    /\ (ItemBefore.exists /\ ~(ItemBefore.expiration_time < lastOp.now)) =>
         /\ lockTable = lastOp.before
         /\ lastOp.outcome = "evaluated" => (~lastOp.returned /\ ~lastOp.raised)

\* an acquire was refused because another caller holds the key
C15_Witness ==
  /\ AcquireEvaluated /\ ~lastOp.returned /\ ~lastOp.raised
  /\ lastOp.grant.caller \in Callers \ {lastOp.caller}
  /\ Unexpired(lastOp.grant.caller, lastOp.key)
  /\ lockTable[lastOp.key] = ItemBefore

(***************************************************************************)
(* Properties of concurrent runs                                           *)
(***************************************************************************)
RunsInPipeline == {r \in Callers : rpc[r] \in InPipeline}

\* the run is past acquire, has not released, and its lock has expired
Overran(r) ==
  /\ rpc[r] \in InPipeline \cup {"release"}
  /\ holds[r][DatasetKey].held
  /\ holds[r][DatasetKey].expiration_time < epoch

RunsSerialized ==
  /\ Cardinality(RunsInPipeline) <= 1
  /\ recorded \subseteq Range(manifest.projected_versions)

\* C16: runs that wrap their work in acquire/release on the same key never
\* execute their pipeline steps at the same time, and no version a run recorded
\* is missing from the projection manifest.
C16_RunsNeverOverlap == RunsSerialized

\* C16 as amended: the same, as long as no run has outlived its lock (no release
\* by a run whose lock had expired, no run at work with an expired lock).
C16_RunsNeverOverlapWithinTimeout ==
  (~staleRelease /\ \A r \in Callers : ~Overran(r)) => RunsSerialized

\* two runs have recorded their versions one after the other, each within its
\* timeout, and a third run was refused meanwhile
C16_Witness ==
  /\ ~staleRelease /\ \A r \in Callers : ~Overran(r)
  /\ Cardinality(recorded) = 2
  /\ \E r \in Callers : rpc[r] = "refused"

(***************************************************************************)
(* Properties of the projection manifest                                   *)
(***************************************************************************)
\* the last manifest manager call was an add_projected_version that returned
Added == mcall.op = "add" /\ ~mcall.raised

NoDuplicates(list) == Cardinality(Range(list)) = Len(list)

\* C17: every version_id in projected_versions before a step is in
\* projected_versions after it, whatever add_projected_version calls are made.
C17_AppendOnly ==
  [][Range(manifest.projected_versions) \subseteq Range(manifest'.projected_versions)]_vars

\* an add_projected_version call has extended a list that held a version already
C17_Witness ==
  /\ Added
  /\ Len(mcall.before.projected_versions) >= 1
  /\ Len(manifest.projected_versions) = Len(mcall.before.projected_versions) + 1
  /\ Range(mcall.before.projected_versions) \subseteq Range(manifest.projected_versions)

\* C18: add_projected_version appends the version when it is absent and leaves
\* the list as it was when it is listed, so no version is listed twice; after
\* the call last_projected_version is the version in either case.
C18_AddOnlyIfAbsent ==
  /\ NoDuplicates(manifest.projected_versions)
  /\ Added =>
       /\ manifest.projected_versions =
            IF mcall.version \in Range(mcall.before.projected_versions)
            THEN mcall.before.projected_versions
            ELSE Append(mcall.before.projected_versions, mcall.version)
       /\ manifest.last_projected_version = mcall.version

\* a version listed earlier, and not the last one projected, was added again
C18_Witness ==
  /\ Added
  /\ mcall.version \in Range(mcall.before.projected_versions)
  /\ mcall.before.last_projected_version # mcall.version
  /\ manifest.last_projected_version = mcall.version

\* C19: is_version_projected returns True exactly when the version is in the
\* stored projected_versions; without a stored manifest it returns False and
\* does not raise; after add_projected_version(v) it is True for v.
C19_IsProjectedIffListed ==
  /\ mcall.op = "is" =>
       /\ ~mcall.raised
       /\ mcall.returned <=> mcall.version \in Range(mcall.before.projected_versions)
       /\ ~mcall.before.exists => ~mcall.returned
  /\ Added => is_version_projected(manifest, mcall.version)

\* is_version_projected answered True for a version that is listed but is not
\* the last one projected
C19_Witness ==
  /\ mcall.op = "is" /\ mcall.returned
  /\ mcall.before.last_projected_version # mcall.version
  /\ Len(mcall.before.projected_versions) >= 2

\* the last project_version call has ended and its version was listed in the
\* projection manifest when it began
CalledWhenListed ==
  /\ pc = "idle"
  /\ result.version # NoVersion
  /\ result.version \in Range(callBase.manifest.projected_versions)

\* C20: project_version of a version the projection manifest already lists only
\* asks the manifest manager: no load of the version manifest, no copy to
\* staging, merge, publish, record or cleanup; staging, the published area and
\* the projection manifest are as they were.
C20_ProjectedVersionIsNoOp ==
  CalledWhenListed =>
    /\ trace = {"is_version_projected"}
    /\ result.outcome = "skipped"
    /\ staging = callBase.staging
    /\ published = callBase.published
    /\ manifest = callBase.manifest

\* a listed version is projected again while staging holds the files a failed
\* call of another version left behind
C20_Witness ==
  /\ CalledWhenListed
  /\ result.outcome = "skipped"
  /\ \E k \in Keys : staging[k].exists
  /\ \E k \in Keys : published[k].exists
  /\ manifest.last_projected_version # result.version

(***************************************************************************)
(* Properties of the project_version steps                                 *)
(***************************************************************************)
\* the version of the call in progress, or of the last call
CallVersion == IF pc = "idle" THEN result.version ELSE cur

\* the last call has ended and its version was not listed when it began
CalledWhenNotListed ==
  /\ pc = "idle"
  /\ result.version # NoVersion
  /\ result.version \notin Range(callBase.manifest.projected_versions)

StoresAsBefore ==
  /\ staging = callBase.staging
  /\ published = callBase.published
  /\ manifest = callBase.manifest

\* C21: project_version of a version without a version manifest fails with the
\* manifest-not-found error, and staging, the published area and the projection
\* manifest are as they were before the call.
C21_ManifestNotFoundMutatesNothing ==
  (CalledWhenNotListed /\ ~load_manifest(result.version).found) =>
    /\ result.outcome = "manifest_not_found"
    /\ trace = {"is_version_projected", "load_manifest"}
    /\ StoresAsBefore

\* the call failed on the missing manifest while staging and the published
\* area held files
C21_Witness ==
  /\ CalledWhenNotListed
  /\ result.outcome = "manifest_not_found"
  /\ \E k \in Keys : staging[k].exists
  /\ \E k \in Keys : published[k].exists

\* C22: project_version of a version whose manifest lists no file makes no
\* staging copy, merge, publish, record or cleanup, and the version is never
\* listed as projected, so a later call for it does the same.
C22_EmptyVersionIsNoOp ==
  /\ (CalledWhenNotListed /\ load_manifest(result.version).found
        /\ load_manifest(result.version).files = <<>>) =>
       /\ result.outcome = "empty"
       /\ trace = {"is_version_projected", "load_manifest"}
       /\ StoresAsBefore
  /\ \A v \in Versions :
       (load_manifest(v).found /\ load_manifest(v).files = <<>>) =>
         v \notin Range(manifest.projected_versions)

\* the version with the empty file list was projected twice in a row
C22_Witness ==
  /\ pc = "idle"
  /\ result.outcome = "empty"
  /\ callBase.prev.version = result.version
  /\ callBase.prev.outcome = "empty"
  /\ trace = {"is_version_projected", "load_manifest"}

\* the positions that can follow a position of project_version
NextSteps(at) ==
  CASE at = "idle"    -> {"idle", "stage"}
    [] at = "stage"   -> {"idle", "merge"}
    [] at = "merge"   -> {"idle", "publish"}
    [] at = "publish" -> {"idle", "record"}
    [] at = "record"  -> {"idle", "cleanup"}
    [] OTHER          -> {"idle"}

\* C23: the steps run in the order check, load, stage, merge, publish, record,
\* cleanup; the version is recorded only after the publish step returned,
\* staging is cleared only after the version was recorded, and a call that
\* failed in stage, merge or publish made neither the record nor the cleanup.
C23_StepOrder ==
  /\ [][pc' \in NextSteps(pc)]_vars
  /\ [](/\ "add_projected_version" \in trace =>
             /\ {"copy_from_version", "merge_all_partitions",
                 "move_staging_to_projections"} \subseteq trace
             /\ lastMove.outcome = "returned"
        /\ "clear_staging" \in trace =>
             /\ "add_projected_version" \in trace
             /\ CallVersion \in Range(manifest.projected_versions)
        /\ (pc = "idle" /\ result.outcome = "failed"
              /\ result.step \in {"stage", "merge", "publish"}) =>
             /\ trace \cap {"add_projected_version", "clear_staging"} = {}
             /\ manifest = callBase.manifest)

\* a call went through every step and returned
C23_Witness ==
  /\ pc = "idle"
  /\ result.outcome = "done"
  /\ trace = {"is_version_projected", "load_manifest", "copy_from_version",
              "merge_all_partitions", "move_staging_to_projections",
              "add_projected_version", "clear_staging"}
  /\ result.version \in Range(manifest.projected_versions)

(***************************************************************************)
(* Properties of the mover and the merger called directly                  *)
(***************************************************************************)
\* the objects under the staging prefix when the last move began
ListedAtStart == Range(list_s3_files(lastMove.staging))

\* C24: when every copy succeeds and deletes of staging originals fail, for one
\* file or for all, move_staging_to_projections returns normally and every
\* staging file listed at its start is at its mirrored key in the published area.
C24_DeleteFailureStillPublishes ==
  (MoveJustRan /\ lastMove.failAt = 0 /\ lastMove.delFail # {}) =>
    /\ lastMove.outcome = "returned"
    /\ \A k \in ListedAtStart :
         /\ published[convert_to_projections_key(k)].exists
         /\ published[convert_to_projections_key(k)] = lastMove.staging[k]

\* every delete failed after the copies of two or more files
C24_Witness ==
  /\ MoveJustRan
  /\ lastMove.outcome = "returned"
  /\ lastMove.delFail = ListedAtStart
  /\ Cardinality(ListedAtStart) >= 2
  /\ staging = lastMove.staging

\* C25: a move that returns has written the staging files listed at its start,
\* each with its content to the same relative key of the published area, and
\* nothing else, and has deleted those staging keys (those whose delete did not
\* fail); without staging files it copies and deletes nothing.
C25_MoveCopiesExactlyListed ==
  (MoveJustRan /\ lastMove.outcome = "returned") =>
    /\ lastMove.copied_files = {convert_to_projections_key(k) : k \in ListedAtStart}
    /\ \A k \in Keys :
         published[k] = IF \E j \in ListedAtStart : convert_to_projections_key(j) = k
                        THEN lastMove.staging[k]
                        ELSE lastMove.published[k]
    /\ \A k \in Keys :
         staging[k] = IF k \in ListedAtStart \ lastMove.delFail
                      THEN NoFile
                      ELSE lastMove.staging[k]
    /\ ListedAtStart = {} =>
         (staging = lastMove.staging /\ published = lastMove.published)

\* a data file and another object were moved and staging is empty
C25_Witness ==
  /\ MoveJustRan
  /\ lastMove.outcome = "returned"
  /\ lastMove.delFail = {}
  /\ \E k \in ListedAtStart : k[2] = OtherFile
  /\ \E k \in ListedAtStart : k[2] = DataFile
  /\ \A k \in Keys : ~staging[k].exists

\* merge_partition has just been called on its own and returned
MergePartitionJustRan(p) ==
  /\ pc = "idle"
  /\ result.step = "merge_partition"
  /\ result.outcome = "returned"
  /\ mergeIn.merged = {p}

MergeAllThenMove ==
  /\ MoveJustRan
  /\ lastMove.outcome = "returned"
  /\ mergeIn.merged # {}
  /\ mergeIn.merged = list_staging_partitions(mergeIn.staging)

\* C28: staging lists P1, which has a data file, and P2, which has a data file
\* neither in staging nor in the published area; merge_all_partitions writes a
\* merged file for P1 only and the move that follows publishes objects of P1
\* only.
C28_OnlyMergedPartitionPublished ==
  ( /\ MergeAllThenMove
    /\ list_staging_partitions(mergeIn.staging) = {"P1", "P2"}
    /\ mergeIn.staging[<<"P1", DataFile>>].exists
    /\ ~mergeIn.staging[<<"P2", DataFile>>].exists
    /\ ~lastMove.published[<<"P2", DataFile>>].exists )
  => /\ mergeIn.written = {"P1"}
     /\ \A k \in Keys : k[1] = "P2" => ~published[k].exists

(***************************************************************************)
(* Properties of the merger's fan-out                                      *)
(***************************************************************************)
\* merge_all_partitions has ended, by a return or by an error
MergeAllEnded == fpc \in {"returned", "raised"}

\* C27: merge_all_partitions calls merge_partition once for every partition
\* that list_staging_partitions reports and for no other partition, for every
\* width of the worker pool.
C27_OneMergePerListedPartition ==
  /\ \A p \in Partitions : mergeCalls[p] <= 1
  /\ MergeAllEnded =>
       \A p \in Partitions :
         mergeCalls[p] = IF p \in list_staging_partitions(mergeIn.staging) THEN 1 ELSE 0

\* a pool of one worker has merged the two listed partitions one after the other
C27_Witness ==
  /\ fpc = "returned"
  /\ merge_workers = 1
  /\ list_staging_partitions(mergeIn.staging) = Partitions
  /\ \A p \in Partitions : mergeCalls[p] = 1

(***************************************************************************)
(* Properties of the two state managers side by side                       *)
(***************************************************************************)
\* the rows of the last call's batch that count for series s
CallValidRows(s) ==
  {i \in 1..Len(call.data) :
     call.data[i].internal_series_code = s /\ call.data[i].obs_time.isdt}

\* the watermarks of the last call's batch, written over an empty state
CallWatermarks ==
  Json([s \in SeriesCodes |->
          IF s # NoSeries /\ CallValidRows(s) # {}
          THEN isoformat(Datetime(SetMax({call.data[i].obs_time.wall : i \in CallValidRows(s)}),
                                  FALSE))
          ELSE NoEntry])

\* C29: on both backends a missing state object and stored content that is
\* empty or not valid JSON are the empty state: get_last_date returns None for
\* every series without raising, and a save_dates_from_data that follows
\* succeeds and stores the watermarks of its batch.
C29_UnreadableContentIsEmptyState ==
  \A b \in Backends :
    call.before[b].kind \in EmptyKinds =>
      /\ call.op = "get_last_date" => answers[b] = NoAnswer
      /\ call.op = "get_series_last_dates" => answers[b] = NoAnswer
      /\ call.op = "save_dates_from_data" =>
           /\ ~answers[b].raised
           /\ (\E s \in Series : CallValidRows(s) # {}) => stores[b] = CallWatermarks
           /\ (\A s \in Series : CallValidRows(s) = {}) => stores[b] = call.before[b]

\* a batch with a valid row was saved over content that is not valid JSON
C29_Witness ==
  /\ call.op = "save_dates_from_data"
  /\ \A b \in Backends : call.before[b] = InvalidJson
  /\ \E s \in Series : CallValidRows(s) # {}
  /\ \A b \in Backends : stores[b] = CallWatermarks

\* C30: the file backend and the s3 backend, started from the same stored
\* content and given the same calls, return the same results, raise in the same
\* cases and hold the same content.
C30_BackendsInterchangeable ==
  /\ answers["file"] = answers["s3"]
  /\ stores["file"] = stores["s3"]

(***************************************************************************)
(* Properties of release under storage errors                              *)
(***************************************************************************)
\* C33: when delete_item fails with ResourceNotFoundException or a ClientError,
\* release returns normally and the table is as it was before the call; any
\* other exception propagates.
C33_ReleaseSwallowsClientErrors ==
  lastOp.op = "release" =>
    /\ lastOp.outcome \in {"ResourceNotFoundException", "ClientError"} =>
         (~lastOp.raised /\ lockTable = lastOp.before)
    /\ lastOp.outcome = "other" => lastOp.raised

\* a release whose delete failed with a ClientError returned and left the
\* holder's item in the table
C33_Witness ==
  /\ lastOp.op = "release" /\ lastOp.outcome = "ClientError"
  /\ ~lastOp.raised
  /\ ItemBefore.exists
  /\ lockTable[lastOp.key] = ItemBefore

(***************************************************************************)
(* Properties of ETLUseCase.execute                                        *)
(***************************************************************************)
\* C31: when a lock manager is configured and acquire returns False, execute
\* raises RuntimeError and no extract, watermark read, parse, normalize,
\* watermark save, transform, load or projection step has run.
C31_RefusedRunDoesNothing ==
  eacq = "false" =>
    /\ epc = "done"
    /\ eerr = "RuntimeError"
    /\ esteps = <<>>

\* the run found the unexpired lock of the other process and ended at once
C31_Witness ==
  /\ eacq = "false" /\ epc = "done" /\ eerr = "RuntimeError"
  /\ lastOp.op = "acquire" /\ lastOp.caller = EtlRunner
  /\ ItemBefore.exists /\ lastOp.grant.caller = OtherProcess
  /\ esteps = <<>>

\* the rows of a series in a sequence of rows, in order
RowsOf(rows, s) ==
  LET mine(row) == row.internal_series_code = s
  IN SelectSeq(rows, mine)

\* the rows of a series that the watermark lets through: those without a
\* datetime and those dated after it
NewerRowsOf(rows, s, last_date) ==
  LET newer(row) == row.internal_series_code = s
                      /\ (row.obs_time.isdt => row.obs_time.wall > last_date.wall)
  IN SelectSeq(rows, newer)

\* parse has just returned
ParseJustRan == epc = "normalize"

\* the call has returned its data
RunReturned == epc = "done" /\ eerr = "" /\ eacq # "false"

C36_ReleaseExactlyOnce ==
  /\ ereleases <= 1
  /\ (epc = "done" /\ eacq = "true") => ereleases = 1
  /\ eacq = "false" => (ereleases = 0 /\ lockTable = lastOp.before)
  /\ (epc # "done" /\ epc # "start") => ereleases = 0

\* the load raised in a run that held the lock: the lock was released once
C36_Witness ==
  /\ epc = "done" /\ eacq = "true" /\ eerr = "load"
  /\ ereleases = 1
  /\ lastOp.op = "release" /\ lastOp.outcome = "ok"
  /\ ~lockTable[DatasetKey].exists

\* C37: when the transform, load or projection step of a run raises, the
\* watermark of every series after the run is the one stored before the run.
C37_WatermarkOnlyAfterLoad ==
  (epc = "done" /\ eerr \in {"transform", "load", "project"}) =>
    \A s \in Series : get_last_date(backend, stored, s) = get_last_date(backend, before, s)

(***************************************************************************)
(* Properties of the merger's join and of its tasks' independence          *)
(***************************************************************************)
\* the tasks that have not ended
Unfinished == {p \in Partitions : futures[p] \in {"pending", "running", "merged"}}

\* C34: when a partition task fails, merge_all_partitions raises only when
\* every submitted task has ended, and every partition whose task succeeded
\* has its merged file in staging.
C34_RaiseAfterAllTasksEnd ==
  fpc = "raised" =>
    /\ Unfinished = {}
    /\ \E p \in Partitions : futures[p] = "failed"
    /\ \A p \in Partitions :
         futures[p] = "done" =>
           staging[<<p, DataFile>>] =
             merge_partition(mergeIn.staging, published, p)[<<p, DataFile>>]

\* two tasks ran side by side, P2 failed, P1 wrote its merged file of staged
\* and published rows, and the call raised
C34_Witness ==
  /\ fpc = "raised"
  /\ merge_workers = 2
  /\ futures["P1"] = "done" /\ futures["P2"] = "failed"
  /\ mergeIn.staging[<<"P1", DataFile>>].exists /\ published[<<"P1", DataFile>>].exists
  /\ staging[<<"P1", DataFile>>] # mergeIn.staging[<<"P1", DataFile>>]

\* the orders in which a set of partitions can be merged one after another
Orders(parts) == {o \in [1..Cardinality(parts) -> parts] : Range(o) = parts}

\* merge_partition called for the partitions of a sequence, one after another
RECURSIVE merge_sequentially(_, _, _)
merge_sequentially(stg, pub, order) ==
  IF order = <<>> THEN stg
  ELSE merge_sequentially(merge_partition(stg, pub, Head(order)), pub, Tail(order))

\* C35: for every width of the pool and every interleaving of the tasks, the
\* staging area after merge_all_partitions is the staging area after merging
\* the same partitions one after another, in any order.
C35_ParallelEqualsSequential ==
  fpc = "returned" =>
    \A order \in Orders(list_staging_partitions(mergeIn.staging)) :
      staging = merge_sequentially(mergeIn.staging, published, order)

\* three workers merged two partitions that both had a staged and a published
\* file
C35_Witness ==
  /\ fpc = "returned"
  /\ merge_workers = 3
  /\ \A p \in Partitions :
       /\ mergeIn.staging[<<p, DataFile>>].exists /\ published[<<p, DataFile>>].exists
       /\ staging[<<p, DataFile>>] # mergeIn.staging[<<p, DataFile>>]

(***************************************************************************)
(* Properties of what a call publishes                                     *)
(***************************************************************************)
\* the partitions listed in a version's manifest
VersionPartitions(v) == {k[1] : k \in Range(load_manifest(v).files)}

\* C38: every object the publish step of a successful project call writes to
\* the published area belongs to a partition listed in the version's manifest,
\* whatever an earlier call left in staging.
C38_PublishesOnlyOwnPartitions ==
  (pc = "idle" /\ result.outcome = "done") =>
    \A k \in lastMove.copied_files : k[1] \in VersionPartitions(result.version)

(***************************************************************************)
(* Properties of the merged file                                           *)
(***************************************************************************)
\* no two rows of the file have the same (obs_time, internal_series_code)
OneRowPerKey(file) ==
  \A i, j \in 1..Len(file.rows) :
    IdentityKey(file.rows[i]) = IdentityKey(file.rows[j]) => i = j

\* C39: whenever merge_partition writes the partition's staging file, the file
\* holds at most one row per identity key, whichever inputs were present and
\* whether or not an input held repeated keys.
C39_MergedFileHasUniqueKeys ==
  \A p \in Partitions :
    (MergePartitionJustRan(p) /\ p \in mergeIn.written) =>
      OneRowPerKey(staging[<<p, DataFile>>])

\* merge_partition has just returned from its second call in a row
MergePartitionRanTwice(p) ==
  /\ result.step = "merge_partition_again"
  /\ result.outcome = "returned"
  /\ mergeIn.merged = {p}

\* C40: merge_partition called twice in a row on a partition, the published
\* file unchanged in between, leaves the staging file with the same set of
\* observations as calling it once.
C40_MergePartitionIdempotent ==
  \A p \in Partitions :
    MergePartitionRanTwice(p) =>
      /\ staging[<<p, DataFile>>].exists = mergeIn.staging[<<p, DataFile>>].exists
      /\ Range(staging[<<p, DataFile>>].rows) = Range(mergeIn.staging[<<p, DataFile>>].rows)

====
